---- MODULE Spec2Model ----
(***************************************************************************)
(* A model of the Face-Swap submission service: the POST /submit           *)
(* middleware chain (rateLimit -> handleUpload -> validateSubmission ->    *)
(* handleSubmission), the in-memory submission list of the controller, the *)
(* detail and delete handlers, the transformation client and the files the *)
(* service keeps on disk.                                                  *)
(*                                                                         *)
(* Strings are sequences of one-character strings; a control character is  *)
(* written as a named token ("NUL"), and so is the grave accent ("GRAVE"). *)
(* Time is in milliseconds.                                                *)
(***************************************************************************)
EXTENDS Integers, Sequences, FiniteSets, TLC

(***************************************************************************)
(* Bounds of the model.                                                    *)
(***************************************************************************)
\* concurrent POST /submit requests in flight
MaxSlots == 2
\* POST /submit requests started in one behaviour of Spec
MaxSubmits == 2
\* POST /submit requests started in one behaviour of SpecRate
MaxRateRequests == 12
\* concurrent DELETE requests in flight
MaxDeleteSlots == 2
\* the clock reads k * windowMs + j, k <= MaxWindows, j <= MaxJitter
MaxWindows == 1
MaxJitter == 1
\* distinct values of Math.random().toString(36).substring(2, 15)
MaxToken == 2

(***************************************************************************)
(* Characters and strings.                                                 *)
(***************************************************************************)
LowerChars ==
  << "a","b","c","d","e","f","g","h","i","j","k","l","m",
     "n","o","p","q","r","s","t","u","v","w","x","y","z" >>

UpperChars ==
  << "A","B","C","D","E","F","G","H","I","J","K","L","M",
     "N","O","P","Q","R","S","T","U","V","W","X","Y","Z" >>

DigitChars == << "0","1","2","3","4","5","6","7","8","9" >>

Range(f) == { f[i] : i \in DOMAIN f }

LowerSet == Range(LowerChars)
UpperSet == Range(UpperChars)
AlphaSet == LowerSet \cup UpperSet
DigitSet == Range(DigitChars)
WordSet == AlphaSet \cup DigitSet \cup { "_" }

IsLower(c) == c \in LowerSet
IsUpper(c) == c \in UpperSet
IsAlpha(c) == c \in AlphaSet
IsDigit(c) == c \in DigitSet
\* \w of a JavaScript regular expression
IsWordChar(c) == c \in WordSet
\* \s of a JavaScript regular expression (the ones the model writes; NBSP is
\* the no-break space U+00A0)
IsSpace(c) == c \in { " ", "\t", "\n", "\r", "\f", "NBSP" }
\* [\x00-\x1F\x7F]
IsControl(c) == c \in { "\t", "\n", "\r", "\f", "NUL", "DEL" }
IsHexChar(c) == IsDigit(c) \/ c \in { "a","b","c","d","e","f","A","B","C","D","E","F" }

\* String.prototype.toLowerCase, one character
ToLowerChar(c) ==
  IF IsUpper(c)
    THEN LowerChars[CHOOSE i \in DOMAIN UpperChars : UpperChars[i] = c]
    ELSE c

\* String.prototype.toLowerCase
ToLowerCase(s) == [ i \in DOMAIN s |-> ToLowerChar(s[i]) ]

\* the digit d as a number
DigitValue(c) == (CHOOSE i \in DOMAIN DigitChars : DigitChars[i] = c) - 1

\* the JavaScript value undefined (no string of characters equals it)
Undefined == << "undefined" >>

\* JavaScript truthiness of a form field: undefined and '' are falsy
Truthy(v) == v # Undefined /\ v # << >>

\* x || '' of a form field
OrEmpty(v) == IF Truthy(v) THEN v ELSE << >>

\* s.substring(i - 1) in 1-based positions: the characters from i on
Drop(s, i) == SubSeq(s, i, Len(s))

\* pat occurs in s at position i; ci: ignoring case
MatchAt(s, i, pat, ci) ==
  /\ i + Len(pat) - 1 <= Len(s)
  /\ \A k \in 1..Len(pat) :
       IF ci THEN ToLowerChar(s[i + k - 1]) = ToLowerChar(pat[k])
             ELSE s[i + k - 1] = pat[k]

RECURSIVE ReplaceAllFrom(_, _, _, _, _)
ReplaceAllFrom(s, i, pat, rep, ci) ==
  IF i > Len(s) THEN << >>
  ELSE IF MatchAt(s, i, pat, ci)
    THEN rep \o ReplaceAllFrom(s, i + Len(pat), pat, rep, ci)
    ELSE << s[i] >> \o ReplaceAllFrom(s, i + 1, pat, rep, ci)

\* s.replace(/pat/g, rep) for a literal pat (/pat/gi when ci)
ReplaceAll(s, pat, rep, ci) == ReplaceAllFrom(s, 1, pat, rep, ci)

RECURSIVE TrimStart(_)
TrimStart(s) ==
  IF s # << >> /\ IsSpace(Head(s)) THEN TrimStart(Tail(s)) ELSE s

RECURSIVE TrimEnd(_)
TrimEnd(s) ==
  IF s # << >> /\ IsSpace(s[Len(s)]) THEN TrimEnd(SubSeq(s, 1, Len(s) - 1)) ELSE s

\* String.prototype.trim
Trim(s) == TrimEnd(TrimStart(s))

\* the least position >= i of s holding c, or 0
RECURSIVE IndexFrom(_, _, _)
IndexFrom(s, i, c) ==
  IF i > Len(s) THEN 0
  ELSE IF s[i] = c THEN i
  ELSE IndexFrom(s, i + 1, c)

\* the end of the longest run of characters of class word (TRUE) or space
\* (FALSE) starting at position i: the position after it
RECURSIVE RunEnd(_, _, _)
RunEnd(s, i, word) ==
  IF i <= Len(s) /\ (IF word THEN IsWordChar(s[i]) ELSE IsSpace(s[i]))
    THEN RunEnd(s, i + 1, word)
    ELSE i

(***************************************************************************)
(* The sanitizer.                                                          *)
(***************************************************************************)
\* the character references the HTML parser of DOMPurify decodes, with the
\* character each stands for
CharRefs ==
  << << << "&","l","t",";" >>, "<" >>,
     << << "&","g","t",";" >>, ">" >>,
     << << "&","a","m","p",";" >>, "&" >>,
     << << "&","q","u","o","t",";" >>, "\"" >>,
     << << "&","#","x","2","7",";" >>, "'" >>,
     << << "&","#","x","2","F",";" >>, "/" >>,
     << << "&","#","x","6","0",";" >>, "GRAVE" >> >>

\* the serialisation of one character of a text node (innerHTML)
EscapeText(c) ==
  CASE c = "<" -> << "&","l","t",";" >>
    [] c = ">" -> << "&","g","t",";" >>
    [] c = "&" -> << "&","a","m","p",";" >>
    [] OTHER -> << c >>

\* position i of s opens markup: a start tag, an end tag, a comment or a
\* processing instruction
OpensMarkup(s, i) ==
  /\ s[i] = "<"
  /\ i < Len(s)
  /\ \/ IsAlpha(s[i + 1])
     \/ s[i + 1] \in { "/", "!", "?" }

RECURSIVE PurifyFrom(_, _)
PurifyFrom(s, i) ==
  IF i > Len(s) THEN << >>
  ELSE IF OpensMarkup(s, i)
    THEN LET j == IndexFrom(s, i + 1, ">")
         IN  \* an unterminated tag swallows the rest of the input
             IF j = 0 THEN << >> ELSE PurifyFrom(s, j + 1)
  ELSE IF \E k \in DOMAIN CharRefs : MatchAt(s, i, CharRefs[k][1], FALSE)
    THEN LET k == CHOOSE k \in DOMAIN CharRefs : MatchAt(s, i, CharRefs[k][1], FALSE)
         IN  EscapeText(CharRefs[k][2]) \o PurifyFrom(s, i + Len(CharRefs[k][1]))
  ELSE EscapeText(s[i]) \o PurifyFrom(s, i + 1)

\* purify.sanitize(s, { ALLOWED_TAGS: [], ALLOWED_ATTR: [], KEEP_CONTENT: true }):
\* the text of the parsed input, every element dropped, serialised as HTML
Purify(s) == PurifyFrom(s, 1)

RECURSIVE DecodeEntitiesFrom(_, _)
DecodeEntitiesFrom(s, k) ==
  IF k > Len(CharRefs) THEN s
  ELSE DecodeEntitiesFrom(ReplaceAll(s, CharRefs[k][1], << CharRefs[k][2] >>, FALSE), k + 1)

\* the chain .replace(/&lt;/g, '<') ... .replace(/&#x60;/g, ...), in its order
DecodeEntities(s) == DecodeEntitiesFrom(s, 1)

RECURSIVE StripTagsFrom(_, _)
StripTagsFrom(s, i) ==
  IF i > Len(s) THEN << >>
  ELSE IF s[i] = "<" /\ IndexFrom(s, i + 1, ">") # 0
    THEN StripTagsFrom(s, IndexFrom(s, i + 1, ">") + 1)
    ELSE << s[i] >> \o StripTagsFrom(s, i + 1)

\* s.replace(/<[^>]*>/g, '')
StripTags(s) == StripTagsFrom(s, 1)

\* /on\w+\s*=/i matches at position i: the position after the match, or 0
OnHandlerEnd(s, i) ==
  IF ~MatchAt(s, i, << "o","n" >>, TRUE) THEN 0
  ELSE LET w  == RunEnd(s, i + 2, TRUE)
           sp == RunEnd(s, w, FALSE)
       IN  IF w > i + 2 /\ sp <= Len(s) /\ s[sp] = "=" THEN sp + 1 ELSE 0

RECURSIVE StripOnHandlersFrom(_, _)
StripOnHandlersFrom(s, i) ==
  IF i > Len(s) THEN << >>
  ELSE IF OnHandlerEnd(s, i) # 0
    THEN StripOnHandlersFrom(s, OnHandlerEnd(s, i))
    ELSE << s[i] >> \o StripOnHandlersFrom(s, i + 1)

ExpressionWord == << "e","x","p","r","e","s","s","i","o","n" >>

\* /expression\s*\(/i matches at position i: the position after it, or 0
ExpressionEnd(s, i) ==
  IF ~MatchAt(s, i, ExpressionWord, TRUE) THEN 0
  ELSE LET sp == RunEnd(s, i + Len(ExpressionWord), FALSE)
       IN  IF sp <= Len(s) /\ s[sp] = "(" THEN sp + 1 ELSE 0

RECURSIVE StripExpressionsFrom(_, _)
StripExpressionsFrom(s, i) ==
  IF i > Len(s) THEN << >>
  ELSE IF ExpressionEnd(s, i) # 0
    THEN StripExpressionsFrom(s, ExpressionEnd(s, i))
    ELSE << s[i] >> \o StripExpressionsFrom(s, i + 1)

\* the chain that removes javascript:, vbscript:, on...= and expression(
StripScripts(s) ==
  LET a == ReplaceAll(s, << "j","a","v","a","s","c","r","i","p","t",":" >>, << >>, TRUE)
      b == ReplaceAll(a, << "v","b","s","c","r","i","p","t",":" >>, << >>, TRUE)
      c == StripOnHandlersFrom(b, 1)
  IN  StripExpressionsFrom(c, 1)

\* s.replace(/[\x00-\x1F\x7F]/g, '')
StripControl(s) == SelectSeq(s, LAMBDA c : ~IsControl(c))

\* sanitizeInput(input) with the default options, for a string input
sanitizeInput(input) ==
  StripControl(StripScripts(StripTags(DecodeEntities(Purify(Trim(input))))))

(***************************************************************************)
(* The field rules of validateSubmission.                                  *)
(***************************************************************************)
\* /^[A-Za-z\s]+$/.test(s)
IsAlphaSpace(s) == s # << >> /\ \A i \in DOMAIN s : IsAlpha(s[i]) \/ IsSpace(s[i])

\* /^\d{10}$/.test(s)
IsTenDigits(s) == Len(s) = 10 /\ \A i \in DOMAIN s : IsDigit(s[i])

\* the position of the last c in s, or 0
LastIndexOf(s, c) ==
  IF \E i \in DOMAIN s : s[i] = c
    THEN CHOOSE i \in DOMAIN s : s[i] = c /\ \A j \in DOMAIN s : s[j] = c => j <= i
    ELSE 0

\* the characters validator.isEmail takes in the user part, besides the dot
IsEmailUserChar(c) ==
  IsAlpha(c) \/ IsDigit(c) \/ c \in { "!","#","$","%","&","'","*","+","-","/","=","?","^","_","GRAVE","{","|","}","~" }

\* s is a dot-separated list of non-empty parts of characters that ok takes
DotParts(s, ok(_)) ==
  /\ s # << >>
  /\ s[1] # "." /\ s[Len(s)] # "."
  /\ \A i \in DOMAIN s : s[i] = "." \/ ok(s[i])
  /\ \A i \in 1..(Len(s) - 1) : ~(s[i] = "." /\ s[i + 1] = ".")

IsDomainChar(c) == IsAlpha(c) \/ IsDigit(c) \/ c = "-" \/ c = "_"

\* validator.isFQDN with its defaults: a top-level domain of two letters or more
IsFQDN(d) ==
  /\ DotParts(d, IsDomainChar)
  /\ LET dot == LastIndexOf(d, ".")
     IN  /\ dot # 0
         /\ Len(d) - dot >= 2
         /\ \A i \in (dot + 1)..Len(d) : IsAlpha(d[i])
  /\ \A i \in DOMAIN d :
       d[i] = "-" => /\ i > 1 /\ i < Len(d)
                     /\ d[i - 1] # "." /\ d[i + 1] # "."

\* validator.isEmail(s) with its defaults
isEmail(s) ==
  LET at == LastIndexOf(s, "@")
  IN  /\ at # 0
      /\ DotParts(SubSeq(s, 1, at - 1), IsEmailUserChar)
      /\ IsFQDN(SubSeq(s, at + 1, Len(s)))

(***************************************************************************)
(* Program constants.                                                      *)
(***************************************************************************)
\* rateLimit: const windowMs = 15 * 60 * 1000
windowMs == 15 * 60 * 1000
\* rateLimit: const maxRequests = 10
maxRequests == 10
\* multer limits.fileSize, maxFileSize of validateSubmission, validateImage
fileSize == 2 * 1024 * 1024
\* simulateFaceSwap: processingTime: 2000
SimulatedProcessingTime == 2000

(***************************************************************************)
(* What a client can send.                                                 *)
(***************************************************************************)
IPs == { "10.0.0.1", "10.0.0.2" }

JohnDoe == << "J","o","h","n"," ","D","o","e" >>
Al == << "A","l" >>
JohnEmail == << "J","O","H","N","@","E","X","A","M","P","L","E",".","C","O","M" >>
Phone10 == << "1","2","3","4","5","6","7","8","9","0" >>
On == << "o","n" >>
Off == << "o","f","f" >>

\* the scenario of the README: every field acceptable
ValidBody == [ name |-> JohnDoe, email |-> JohnEmail, phone |-> Phone10, terms |-> On ]

\* req.body of the requests of Spec: the valid body, and the bodies that
\* differ from it in one field
Bodies ==
  { ValidBody,
    [ ValidBody EXCEPT !.name = Al ] }
  \cup { [ ValidBody EXCEPT !.terms = t ] : t \in { Undefined, << >>, Off } }

\* the names of the calls of validateSubmission: at, inside and outside the
\* bounds of the length, with characters the pattern refuses, with markup,
\* entities, control characters and white space for the sanitizer (EACUTE is
\* the letter U+00E9)
Letters(n) == [ i \in 1..n |-> LowerChars[((i - 1) % 26) + 1] ]

FormNames ==
  { JohnDoe, Al, Undefined, << >>,
    << " "," "," " >>,
    << "B","o","b" >>,
    << "A","n","n","a" >>,
    Letters(30),
    Letters(31),
    << "J","o","h","n","3" >>,
    << "J","o","s","EACUTE" >>,
    << "O","'","N","e","i","l" >>,
    << "J","o","h","n"," ","D","o","e"," " >>,
    << "J","o","h","n","\t","D","o","e" >>,
    << "J","o","h","n","NBSP","D","o","e" >>,
    << "DEL"," ","A","n","n" >>,
    << "<","b",">","J","o","h","n","<","/","b",">" >>,
    << "J","o","<","b",">" >>,
    << "J","&","a","m","p",";","h","n" >> }

FormEmails ==
  { JohnEmail, Undefined, << "j","o","h","n","@" >> }

FormPhones ==
  { Phone10, << >>, << "1","2","3","4","5","6","7","8","9" >> }

FormTerms == { On, Undefined, Off }

\* req.body of the calls of validateSubmission
FormBodies == [ name : FormNames, email : FormEmails, phone : FormPhones, terms : FormTerms ]

\* no file part in the request
NoUpload == [ attached |-> FALSE ]

\* a JPEG of 10 KB, sent as the form field image; limit is written by multer:
\* whether the file stream raised 'limit' while the part was read
JpegUpload ==
  [ attached |-> TRUE, fieldname |-> "image", mimetype |-> "image/jpeg",
    ext |-> ".jpg", size |-> 10240, header |-> << 255, 216, 255, 224 >>,
    limit |-> FALSE ]

\* the file parts of the requests of Spec: the JPEG, and the parts that differ
\* from it in one respect
Uploads ==
  { NoUpload,
    JpegUpload,
    \* a text file sent as a JPEG
    [ JpegUpload EXCEPT !.header = << 60, 104, 116, 109 >> ],
    \* one byte over the limit
    [ JpegUpload EXCEPT !.size = fileSize + 1 ],
    [ JpegUpload EXCEPT !.mimetype = "image/gif", !.ext = ".gif",
                        !.header = << 71, 73, 70, 56 >> ],
    [ JpegUpload EXCEPT !.fieldname = "photo" ] }

\* the requests of Spec
Inputs ==
  { in \in [ body : Bodies, upload : Uploads ] :
      in.body = ValidBody \/ in.upload = JpegUpload }

\* the values the clock takes
Times == { k * windowMs + j : k \in 0..MaxWindows, j \in 0..MaxJitter }

\* the values of Math.random().toString(36).substring(2, 15)
Tokens == 1..MaxToken

(***************************************************************************)
(* State.                                                                  *)
(***************************************************************************)
VARIABLES
  now,             \* Date.now()
  apiKey,          \* whether process.env.REMAKER_API_KEY is set
  rateLimitStore,  \* req.app.locals.rateLimitStore: ip -> { count, resetTime }
  reqs,            \* the POST /submit requests in flight, by slot
  started,         \* how many POST /submit requests have arrived
  submissions,     \* the controller's list of submissions
  submissionId,    \* the controller's next id
  disk,            \* the files under public/uploads: path -> content
  dels,            \* the DELETE /submissions/:id requests in flight, by slot
  detail,          \* the last response of GET /submissions/:id
  window,          \* history: per address, the start of its current window
                   \* and the number of its requests in it
  deletedOk,       \* history: the ids whose DELETE was answered with success
  call,            \* the last call of an operation that is not a request:
                   \* its name, its arguments and what it gave
  camera           \* the CameraManager of the page and the media streams of
                   \* the browser

vars ==
  << now, apiKey, rateLimitStore, reqs, started, submissions, submissionId,
     disk, dels, detail, window, deletedOk, call, camera >>

\* the CameraManager after initialize(): getDevices has stopped the stream it
\* asked the permission with, and no camera runs
NoCamera ==
  [ stream |-> 0,           \* this.stream: a stream, or 0 for null
    currentDeviceId |-> 1,  \* this.currentDeviceId: the first device
    live |-> { },           \* the streams acquired whose tracks are not stopped
    awaiting |-> 0,         \* the calls of getUserMedia that have not answered
    blobs |-> 0,            \* the callbacks of canvas.toBlob that have not run
    captured |-> FALSE,     \* the canvas with the photo is shown, not the video
    streams |-> 0 ]         \* the streams getUserMedia has given

Slots == 1..MaxSlots
DeleteSlots == 1..MaxDeleteSlots

\* req.file when multer stored nothing
NoFile == [ stored |-> FALSE ]
\* req.validatedData before validateSubmission sets it
NoData == [ set |-> FALSE ]
\* a slot with no request in it
IdleRequest ==
  [ pc |-> "idle", ip |-> "", body |-> ValidBody, upload |-> NoUpload,
    file |-> NoFile, validatedData |-> NoData, formData |-> NoData,
    errors |-> << >>, stats |-> 0, out |-> NoFile,
    status |-> 0, resp |-> "", submissionId |-> 0,
    ordinal |-> 0, swapInvoked |-> FALSE ]

NoCall == [ op |-> "" ]

NoDetail == [ param |-> << >>, status |-> 0, body |-> [ found |-> FALSE ] ]

IdleDelete ==
  [ pc |-> "idle", target |-> 0, index |-> 0, files |-> << >>, k |-> 0, status |-> 0 ]

\* f with x mapped to v
Put(f, x, v) == [ y \in DOMAIN f \cup { x } |-> IF y = x THEN v ELSE f[y] ]

\* f without x
Remove(f, x) == [ y \in DOMAIN f \ { x } |-> f[y] ]

(***************************************************************************)
(* Initial state: a process that has just started.                         *)
(***************************************************************************)
Init ==
  /\ now = 0
  /\ apiKey \in BOOLEAN
  /\ rateLimitStore = << >>
  /\ reqs = [ r \in Slots |-> IdleRequest ]
  /\ started = 0
  /\ submissions = << >>
  /\ submissionId = 1
  /\ disk = << >>
  /\ dels = [ d \in DeleteSlots |-> IdleDelete ]
  /\ detail = NoDetail
  /\ window = << >>
  /\ deletedOk = { }
  /\ call = NoCall
  /\ camera = NoCamera

\* time passes
Tick ==
  /\ \E t \in Times : t > now /\ now' = t
  /\ UNCHANGED << apiKey, rateLimitStore, reqs, started, submissions, submissionId,
                  disk, dels, detail, window, deletedOk, call, camera >>

(***************************************************************************)
(* ValidationMiddleware.rateLimit                                          *)
(***************************************************************************)
\* store.get(ip) || { count: 0, resetTime: now + windowMs }
ClientData(store, ip, t) ==
  IF ip \in DOMAIN store THEN store[ip] ELSE [ count |-> 0, resetTime |-> t + windowMs ]

\* now > clientData.resetTime
WindowExpired(t, data) == t > data.resetTime

\* the if / else that counts the request
Counted(data, t) ==
  IF WindowExpired(t, data)
    THEN [ count |-> 1, resetTime |-> t + windowMs ]
    ELSE [ data EXCEPT !.count = @ + 1 ]

\* a limiter that refuses the 10th request already
TooManyRequestsOffByOne(data) == data.count >= maxRequests

\* clientData.count > maxRequests
TooManyRequests(data) == data.count > maxRequests

\* history: the window of the address and the ordinal of a request at time t
\* in it; a window lasts fifteen minutes from the request that starts it
FifteenMinutes == 900000
WindowAt(w, ip, t) ==
  IF ip \in DOMAIN w /\ t <= w[ip].start + FifteenMinutes
    THEN [ start |-> w[ip].start, n |-> w[ip].n + 1 ]
    ELSE [ start |-> t, n |-> 1 ]

\* a POST /submit request arrives in the first free slot, r, and rateLimit
\* runs; the upload begins when it calls next
rateLimit(r, ip, in) ==
  /\ reqs[r].pc = "idle"
  /\ \A q \in Slots : q < r => reqs[q].pc # "idle"
  /\ LET data == Counted(ClientData(rateLimitStore, ip, now), now)
         req  == [ IdleRequest EXCEPT !.ip = ip, !.body = in.body, !.upload = in.upload,
                                      !.ordinal = WindowAt(window, ip, now).n ]
     IN  /\ rateLimitStore' = Put(rateLimitStore, ip, data)
         /\ reqs' = [ reqs EXCEPT ![r] =
              IF TooManyRequests(data)
                THEN [ req EXCEPT !.pc = "done", !.status = 429, !.resp = "tooManyRequests" ]
                ELSE [ req EXCEPT !.pc = "handleUpload" ] ]
  /\ window' = Put(window, ip, WindowAt(window, ip, now))
  /\ started' = started + 1
  /\ UNCHANGED << now, apiKey, submissions, submissionId, disk, dels, detail, deletedOk,
                  call, camera >>

\* the response has been sent and the slot is free again
EndRequest(r) ==
  /\ reqs[r].pc = "done"
  /\ reqs' = [ reqs EXCEPT ![r] = IdleRequest ]
  /\ UNCHANGED << now, apiKey, rateLimitStore, started, submissions, submissionId,
                  disk, dels, detail, window, deletedOk, call, camera >>

(***************************************************************************)
(* handleUpload: multer's upload.single('image') and the callback          *)
(***************************************************************************)
allowedMimeTypes == { "image/jpeg", "image/jpg", "image/png" }
allowedExtensions == { ".jpg", ".jpeg", ".png" }

\* fileFilter accepts the file
fileFilter(file) ==
  file.mimetype \in allowedMimeTypes /\ file.ext \in allowedExtensions

\* limits.fileSize is handed to busboy, which raises 'limit' on the file
\* stream; multer turns the event into the error LIMIT_FILE_SIZE.  A file of
\* more bytes than fileSize raises it and a file of fewer does not.  For a
\* file of exactly fileSize bytes the answer is the library's: busboy 0.2
\* tests (nsize += data.length) > fileSizeLimit, busboy 1 tests
\* fileSize === fileSizeLimit after counting the chunk, and the repository
\* does not say which of them it is built with.
LimitEvents(size) ==
  IF size > fileSize THEN { TRUE }
  ELSE IF size = fileSize THEN BOOLEAN
  ELSE { FALSE }

\* the error multer hands to the callback, "" when there is none; multer
\* keeps no file of a request it refuses
UploadError(upload) ==
  IF ~upload.attached THEN ""
  ELSE IF upload.fieldname # "image" THEN "LIMIT_UNEXPECTED_FILE"
  ELSE IF ~fileFilter(upload) THEN "Only JPG, JPEG, and PNG images are allowed"
  ELSE IF upload.limit THEN "LIMIT_FILE_SIZE"
  ELSE ""

\* storage.filename under the destination public/uploads/original
OriginalPath(t, token, ext) ==
  [ dir |-> "original", ts |-> t, rnd |-> token, ext |-> ext ]

\* multer stores the file of the request at path
Stores(req) == req.upload.attached /\ UploadError(req.upload) = ""

\* the callback of handleUpload: the request after it
AfterUpload(req, path) ==
  IF UploadError(req.upload) # ""
    THEN [ req EXCEPT !.pc = "done", !.status = 400, !.resp = "uploadError",
                      !.errors = << UploadError(req.upload) >>, !.formData = req.body ]
  ELSE IF ~req.upload.attached
    THEN [ req EXCEPT !.pc = "validateSubmission" ]
  ELSE [ req EXCEPT !.pc = "validateSubmission",
                    !.file = [ stored |-> TRUE, path |-> path,
                               mimetype |-> req.upload.mimetype,
                               size |-> req.upload.size ] ]

(***************************************************************************)
(* ValidationMiddleware.validateSubmission                                 *)
(***************************************************************************)
\* the values of the fields name, email and phone in the model
FieldValues ==
  UNION { { body.name, body.email, body.phone } : body \in Bodies }
  \cup FormNames \cup FormEmails \cup FormPhones

\* sanitizeInput(field || '') over the values of the model, computed once
Sanitized == [ field \in FieldValues |-> sanitizeInput(OrEmpty(field)) ]

\* formData: the sanitized fields
FormData(body) ==
  [ name  |-> Sanitized[body.name],
    email |-> Sanitized[body.email],
    phone |-> Sanitized[body.phone],
    terms |-> IF Truthy(body.terms) THEN On ELSE << >> ]

\* the bounds of the length taken as exclusive
NameErrorsExclusive(name) ==
  IF name = << >> THEN << "Name is required" >>
  ELSE IF Len(name) <= 4 \/ Len(name) >= 30
    THEN << "Name must be between 4 and 30 characters long" >>
  ELSE IF ~IsAlphaSpace(name)
    THEN << "Name must contain only alphabetic characters and spaces" >>
  ELSE << >>

NameErrors(name) ==
  IF name = << >> THEN << "Name is required" >>
  ELSE IF Len(name) < 4 \/ Len(name) > 30
    THEN << "Name must be between 4 and 30 characters long" >>
  ELSE IF ~IsAlphaSpace(name)
    THEN << "Name must contain only alphabetic characters and spaces" >>
  ELSE << >>

EmailErrors(email) ==
  IF email = << >> THEN << "Email is required" >>
  ELSE IF ~isEmail(email) THEN << "Please provide a valid email address" >>
  ELSE << >>

PhoneErrors(phone) ==
  IF phone = << >> THEN << "Phone number is required" >>
  ELSE IF ~IsTenDigits(phone) THEN << "Phone number must be exactly 10 digits" >>
  ELSE << >>

\* if (!terms)
TermsErrors(terms) ==
  IF ~Truthy(terms) THEN << "You must accept the Terms & Conditions" >> ELSE << >>

\* the two checks of the file as an if ... else if
FileErrorsFailFast(file) ==
  IF ~file.stored THEN << "Image is required" >>
  ELSE IF file.mimetype \notin allowedMimeTypes
    THEN << "Image must be in JPG, JPEG, or PNG format" >>
  ELSE IF file.size > fileSize
    THEN << "Image size must not exceed 2MB" >>
  ELSE << >>

\* if (!req.file) ... else ...
FileErrors(file) ==
  IF ~file.stored THEN << "Image is required" >>
  ELSE (IF file.mimetype \notin allowedMimeTypes
          THEN << "Image must be in JPG, JPEG, or PNG format" >> ELSE << >>)
       \o (IF file.size > fileSize
             THEN << "Image size must not exceed 2MB" >> ELSE << >>)

\* the errors array when the rules have run
\* (formData is computed once, before the rules read it)
ValidationErrors(body, file) ==
  CHOOSE errors \in
    { NameErrors(formData.name) \o EmailErrors(formData.email)
      \o PhoneErrors(formData.phone) \o TermsErrors(body.terms) \o FileErrors(file) :
      formData \in { FormData(body) } } : TRUE

\* req.validatedData
ValidatedData(body) ==
  LET formData == FormData(body)
  IN  [ set |-> TRUE, name |-> formData.name, email |-> ToLowerCase(formData.email),
        phone |-> formData.phone, terms |-> TRUE ]

\* validateSubmission without the return in front of res.status(400)
validateSubmissionNoReturn(req) ==
  LET errors == ValidationErrors(req.body, req.file)
  IN  IF Len(errors) > 0
        THEN [ req EXCEPT !.pc = "done", !.status = 400, !.resp = "validationError",
                          !.errors = errors, !.formData = FormData(req.body),
                          !.validatedData = ValidatedData(req.body) ]
        ELSE [ req EXCEPT !.pc = "handleSubmission",
                          !.validatedData = ValidatedData(req.body) ]

\* validateSubmission: the request after it
validateSubmission(req) ==
  LET errors == ValidationErrors(req.body, req.file)
  IN  IF Len(errors) > 0
        THEN [ req EXCEPT !.pc = "done", !.status = 400, !.resp = "validationError",
                          !.errors = errors, !.formData = FormData(req.body) ]
        ELSE [ req EXCEPT !.pc = "handleSubmission",
                          !.validatedData = ValidatedData(req.body) ]

(***************************************************************************)
(* SubmissionController.handleSubmission, with the calls it awaits:        *)
(* validateImage (fs.stat, fs.readFile) and swapFace / simulateFaceSwap    *)
(* (fs.readFile, fs.copyFile, the 2000 ms timer).  Each await is a step.   *)
(***************************************************************************)
\* a response without return: the handler goes on
RespondAndGoOn(req, code, kind) ==
  [ req EXCEPT !.status = code, !.resp = kind ]

\* res.status(code).json(...)
Respond(req, code, kind) ==
  [ req EXCEPT !.pc = "done", !.status = code, !.resp = kind ]

\* the entry of the handler, up to its first await (fs.stat of validateImage)
handleSubmissionEntry(req) ==
  IF ~req.file.stored
    THEN Respond(req, 400, "noImage")
    ELSE [ req EXCEPT !.pc = "validateImage.stat" ]

\* a route without validateSubmission
RunToFirstAwaitUnvalidated(req) ==
  IF req.pc = "validateSubmission" THEN handleSubmissionEntry(req) ELSE req

\* next(): the middleware after the callback of handleUpload run in the same
\* turn of the event loop, as far as the request gets
RunToFirstAwait(req) ==
  LET a == IF req.pc = "validateSubmission" THEN validateSubmission(req) ELSE req
  IN  IF a.pc = "handleSubmission" THEN handleSubmissionEntry(a) ELSE a

\* multer has read the request: the file, if it is accepted, is on disk under
\* a generated name, and the callback of handleUpload runs
handleUpload(r) ==
  /\ reqs[r].pc = "handleUpload"
  /\ \E token \in Tokens :
     \E limit \in (IF reqs[r].upload.attached
                     THEN LimitEvents(reqs[r].upload.size) ELSE { FALSE }) :
       LET path == OriginalPath(now, token, reqs[r].upload.ext)
           req  == IF reqs[r].upload.attached
                     THEN [ reqs[r] EXCEPT !.upload.limit = limit ]
                     ELSE reqs[r]
       IN  /\ \E uploaded \in { AfterUpload(req, path) } :
              \E routed \in { RunToFirstAwait(uploaded) } :
                reqs' = [ reqs EXCEPT ![r] = routed ]
           /\ disk' = IF Stores(req)
                        THEN Put(disk, path, [ header |-> req.upload.header,
                                               size |-> req.upload.size ])
                        ELSE disk
  /\ UNCHANGED << now, apiKey, rateLimitStore, started, submissions, submissionId,
                  dels, detail, window, deletedOk, call, camera >>

(***************************************************************************)
(* FaceSwapAPI.validateImage and its helpers.  A buffer is the content of  *)
(* a file: its length (size) and its leading bytes (header).               *)
(***************************************************************************)
signatures ==
  << << 255, 216, 255 >>,      \* jpg
     << 137, 80, 78, 71 >>,    \* png
     << 71, 73, 70 >>,         \* gif
     << 82, 73, 70, 70 >> >>   \* webp

\* signature.every((byte, index) => buffer[index] === byte)
StartsWith(buffer, signature) ==
  \A i \in DOMAIN signature : i <= Len(buffer.header) /\ buffer.header[i] = signature[i]

\* a table of signatures without webp
isValidImageBufferNoWebp(buffer) ==
  IF buffer.size < 4 THEN FALSE
  ELSE \E k \in 1..3 : StartsWith(buffer, signatures[k])

isValidImageBuffer(buffer) ==
  IF buffer.size < 4 THEN FALSE
  ELSE \E k \in DOMAIN signatures : StartsWith(buffer, signatures[k])

\* the valid of validateImage once stat and readFile have answered
ImageValid(statSize, buffer) ==
  IF statSize > fileSize THEN FALSE
  ELSE isValidImageBuffer(buffer)

\* a handler that ignores the answer of validateImage
ImageRefusedNever(valid) == FALSE

\* the handler: if (!imageValidation.valid)
ImageRefused(valid) == ~valid

\* validateImage: fs.stat answers
validateImageStat(r) ==
  /\ reqs[r].pc = "validateImage.stat"
  /\ reqs' = [ reqs EXCEPT ![r] =
       IF reqs[r].file.path \notin DOMAIN disk
         THEN (IF ImageRefused(FALSE) THEN Respond(@, 400, "invalidImage")
               ELSE [ @ EXCEPT !.pc = "validateImage.readFile" ])
         ELSE [ @ EXCEPT !.pc = "validateImage.readFile",
                         !.stats = disk[reqs[r].file.path].size ] ]
  /\ UNCHANGED << now, apiKey, rateLimitStore, started, submissions, submissionId,
                  disk, dels, detail, window, deletedOk, call, camera >>

\* a failure path that removes the upload
DiskAfterSwapFailureCleanedUp(files, req) == Remove(files, req.file.path)

\* the files after swapFace has thrown: the handler's catch touches none
DiskAfterSwapFailure(files, req) == files

\* a swapFace that runs the simulation without a key
SwapFaceThrowsNever(key) == FALSE

\* swapFace is entered: if (!this.apiKey) throw
SwapFaceThrows(key) == ~key

\* validateImage: fs.readFile answers and validateImage returns; the handler
\* answers 400, or calls swapFace, which throws (the handler's catch answers
\* 500) or starts simulateFaceSwap
validateImageReadFile(r) ==
  /\ reqs[r].pc = "validateImage.readFile"
  /\ LET path == reqs[r].file.path
     IN  IF ImageRefused(path \in DOMAIN disk /\ ImageValid(reqs[r].stats, disk[path]))
           THEN /\ reqs' = [ reqs EXCEPT ![r] = Respond(@, 400, "invalidImage") ]
                /\ disk' = disk
         ELSE IF SwapFaceThrows(apiKey)
           THEN /\ reqs' = [ reqs EXCEPT ![r] =
                     [ Respond(@, 500, "internalError") EXCEPT !.swapInvoked = TRUE ] ]
                /\ disk' = DiskAfterSwapFailure(disk, reqs[r])
         ELSE /\ reqs' = [ reqs EXCEPT ![r] =
                   [ @ EXCEPT !.pc = "swapFace.readFile", !.swapInvoked = TRUE ] ]
              /\ disk' = disk
  /\ UNCHANGED << now, apiKey, rateLimitStore, started, submissions, submissionId,
                  dels, detail, window, deletedOk, call, camera >>

\* outputPath of simulateFaceSwap, under public/uploads/swapped
SwappedPath(t, token, ext) ==
  [ dir |-> "swapped", ts |-> t, rnd |-> token, ext |-> ext ]

\* simulateFaceSwap: fs.readFile answers and the output name is generated
swapFaceReadFile(r) ==
  /\ reqs[r].pc = "swapFace.readFile"
  /\ \E token \in Tokens :
       IF reqs[r].file.path \notin DOMAIN disk
         THEN /\ reqs' = [ reqs EXCEPT ![r] = Respond(@, 500, "internalError") ]
              /\ disk' = DiskAfterSwapFailure(disk, reqs[r])
         ELSE /\ reqs' = [ reqs EXCEPT ![r] =
                   [ @ EXCEPT !.pc = "swapFace.copyFile",
                              !.out = [ stored |-> TRUE,
                                        path |-> SwappedPath(now, token, reqs[r].file.path.ext) ] ] ]
              /\ disk' = disk
  /\ UNCHANGED << now, apiKey, rateLimitStore, started, submissions, submissionId,
                  dels, detail, window, deletedOk, call, camera >>

\* simulateFaceSwap: fs.copyFile answers and the timer is set
swapFaceCopyFile(r) ==
  /\ reqs[r].pc = "swapFace.copyFile"
  /\ IF reqs[r].file.path \notin DOMAIN disk
       THEN /\ reqs' = [ reqs EXCEPT ![r] = Respond(@, 500, "internalError") ]
            /\ disk' = DiskAfterSwapFailure(disk, reqs[r])
       ELSE /\ reqs' = [ reqs EXCEPT ![r] = [ @ EXCEPT !.pc = "swapFace.timer" ] ]
            /\ disk' = Put(disk, reqs[r].out.path, disk[reqs[r].file.path])
  /\ UNCHANGED << now, apiKey, rateLimitStore, started, submissions, submissionId,
                  dels, detail, window, deletedOk, call, camera >>

\* an id taken from the length of the list instead of the counter
NewSubmissionByLength(id, req, t) ==
  [ id |-> Len(submissions) + 1,
    name |-> req.body.name,
    email |-> req.body.email,
    phone |-> req.body.phone,
    terms |-> (req.body.terms = On),
    originalImagePath |-> req.file.path,
    swappedImagePath |-> req.out.path,
    processingTime |-> SimulatedProcessingTime,
    createdAt |-> t,
    status |-> "completed" ]

\* the submission object the handler builds from req.body and req.file
NewSubmission(id, req, t) ==
  [ id |-> id,
    name |-> req.body.name,
    email |-> req.body.email,
    phone |-> req.body.phone,
    terms |-> (req.body.terms = On),
    originalImagePath |-> req.file.path,
    swappedImagePath |-> req.out.path,
    processingTime |-> SimulatedProcessingTime,
    createdAt |-> t,
    status |-> "completed" ]

\* the timer fires, swapFace returns success, the submission is pushed and
\* the request is answered
swapFaceReturns(r) ==
  /\ reqs[r].pc = "swapFace.timer"
  /\ submissions' = Append(submissions, NewSubmission(submissionId, reqs[r], now))
  /\ submissionId' = submissionId + 1
  /\ reqs' = [ reqs EXCEPT ![r] =
               [ Respond(@, 200, "success") EXCEPT !.submissionId = submissionId ] ]
  /\ UNCHANGED << now, apiKey, rateLimitStore, started, disk, dels, detail, window,
                  deletedOk, call, camera >>

(***************************************************************************)
(* The :id of the /submissions/:id routes.                                 *)
(***************************************************************************)
\* String(n) for n >= 0
RECURSIVE NumberToString(_)
NumberToString(n) ==
  IF n < 10 THEN << DigitChars[n + 1] >>
  ELSE NumberToString(n \div 10) \o << DigitChars[(n % 10) + 1] >>

RECURSIVE Zeros(_)
Zeros(n) == IF n = 0 THEN << >> ELSE << "0" >> \o Zeros(n - 1)

\* n written with 24 digits
Pad24(n) == Zeros(24 - Len(NumberToString(n))) \o NumberToString(n)

\* a pattern without the length
IsObjectIdFormatAnyLength(id) == \A i \in DOMAIN id : IsHexChar(id[i])

\* /^[0-9a-fA-F]{24}$/
IsObjectIdFormat(id) == Len(id) = 24 /\ \A i \in DOMAIN id : IsHexChar(id[i])

\* validateObjectId: the status it answers with, 0 when it calls next, and
\* req.params.id after it
validateObjectId(id) ==
  LET sanitizedId == sanitizeInput(id)
  IN  IF id = << >> THEN [ status |-> 400, id |-> id ]
      ELSE IF ~IsObjectIdFormat(sanitizedId) THEN [ status |-> 400, id |-> id ]
      ELSE [ status |-> 0, id |-> sanitizedId ]

\* the values parseInt gives in the model are capped here, either side of 0
ParseCap == 1000000
\* NaN: a value no number of the model equals
NaN == 0 - 2 * (ParseCap + 1)
isNaN(n) == n = NaN

\* the value of a hexadecimal digit
HexValue(c) ==
  IF IsDigit(c) THEN DigitValue(c)
  ELSE CHOOSE v \in 10..15 :
         ToLowerChar(c) = << "a", "b", "c", "d", "e", "f" >>[v - 9]

RECURSIVE ParseDigits(_, _, _)
ParseDigits(s, i, acc) ==
  IF i > Len(s) \/ ~IsDigit(s[i]) THEN acc
  ELSE ParseDigits(s, i + 1,
         IF acc * 10 + DigitValue(s[i]) > ParseCap THEN ParseCap
         ELSE acc * 10 + DigitValue(s[i]))

RECURSIVE ParseHexDigits(_, _, _)
ParseHexDigits(s, i, acc) ==
  IF i > Len(s) \/ ~IsHexChar(s[i]) THEN acc
  ELSE ParseHexDigits(s, i + 1,
         IF acc * 16 + HexValue(s[i]) > ParseCap THEN ParseCap
         ELSE acc * 16 + HexValue(s[i]))

\* parseInt of a string without its sign: a 0x prefix makes the digits
\* hexadecimal; NaN when no digit follows
ParseUnsigned(t) ==
  IF Len(t) >= 2 /\ t[1] = "0" /\ t[2] \in { "x", "X" }
    THEN (IF Len(t) >= 3 /\ IsHexChar(t[3]) THEN ParseHexDigits(t, 3, 0) ELSE NaN)
  ELSE IF t = << >> \/ ~IsDigit(t[1]) THEN NaN
  ELSE ParseDigits(t, 1, 0)

\* parseInt(s): leading white space, an optional sign, then the digits up to
\* the first character that is none
parseInt(s) ==
  LET t == TrimStart(s)
  IN  IF t # << >> /\ t[1] = "-"
        THEN (IF isNaN(ParseUnsigned(Drop(t, 2))) THEN NaN
              ELSE 0 - ParseUnsigned(Drop(t, 2)))
      ELSE IF t # << >> /\ t[1] = "+" THEN ParseUnsigned(Drop(t, 2))
      ELSE ParseUnsigned(t)

\* submissions.findIndex(s => s.id === id): 1-based, 0 for none
FindIndex(list, id) ==
  IF \E i \in DOMAIN list : list[i].id = id
    THEN CHOOSE i \in DOMAIN list : list[i].id = id /\ \A j \in 1..(i - 1) : list[j].id # id
    ELSE 0

\* the ids clients ask for: as the create response gives them, and as 24
\* digits
IdParams ==
  { NumberToString(n) : n \in 1..MaxSubmits } \cup { Pad24(n) : n \in 1..(MaxSubmits + 1) }

\* more ids: of 23 and 25 digits, with letters that are hexadecimal digits
\* and one that is not, and one inside a tag
PathParams ==
  IdParams \cup
    { Drop(Pad24(1), 2), << "0" >> \o Pad24(1),
      SubSeq(Pad24(0), 1, 22) \o << "1", "a" >>,
      SubSeq(Pad24(0), 1, 22) \o << "1", "g" >>,
      << "a","b","c","d","e","f","A","B","C","D","E","F","0","1","2","3","4","5","6","7","8","9","0","1" >>,
      << "<","b",">" >> \o Pad24(1) \o << "<","/","b",">" >>,
      SubSeq(Pad24(0), 1, 23) \o << " " >>,
      << >> }

\* the route over the ids of the model, computed once: what validateObjectId
\* answers and what parseInt(req.params.id) is in the handler
ParamOf ==
  [ id \in PathParams |->
      [ refused |-> validateObjectId(id).status,
        id |-> parseInt(validateObjectId(id).id) ] ]

(***************************************************************************)
(* GET /submissions/:id: validateObjectId, then getSubmissionDetails.      *)
(***************************************************************************)
NoBody == [ found |-> FALSE ]

\* submissionDetails
SubmissionDetails(submission) ==
  [ found |-> TRUE,
    id |-> submission.id,
    name |-> submission.name,
    email |-> submission.email,
    phone |-> submission.phone,
    createdAt |-> submission.createdAt,
    status |-> submission.status,
    processingTime |-> submission.processingTime,
    swappedImageUrl |-> submission.swappedImagePath ]

getSubmissionDetails(param) ==
  /\ LET index == FindIndex(submissions, ParamOf[param].id)
     IN  detail' =
           IF ParamOf[param].refused # 0
             THEN [ param |-> param, status |-> ParamOf[param].refused, body |-> NoBody ]
           ELSE IF index = 0
             THEN [ param |-> param, status |-> 404, body |-> NoBody ]
           ELSE [ param |-> param, status |-> 200,
                  body |-> SubmissionDetails(submissions[index]) ]
  /\ UNCHANGED << now, apiKey, rateLimitStore, reqs, started, submissions, submissionId,
                  disk, dels, window, deletedOk, call, camera >>

(***************************************************************************)
(* GET /submissions/:id/download: validateObjectId, then                   *)
(* downloadSwappedImage, which awaits fs.access before it sends the file.  *)
(***************************************************************************)
\* a record without a swapped image
NoPath == [ dir |-> "" ]

\* call while the download waits for fs.access
Downloading == call.op = "downloadSwappedImage" /\ call.pc = "fs.access"

\* the response of the download route
DownloadResponse(param, handled, status, resp) ==
  [ op |-> "downloadSwappedImage", param |-> param, pc |-> "done", handled |-> handled,
    status |-> status, resp |-> resp, path |-> NoPath ]

\* a GET /submissions/:id/download request arrives, one at a time; the
\* handler runs up to the await of fs.access
downloadSwappedImage(param) ==
  /\ ~Downloading
  /\ LET index == FindIndex(submissions, ParamOf[param].id)
     IN  call' =
           IF ParamOf[param].refused # 0
             THEN DownloadResponse(param, FALSE, ParamOf[param].refused, "invalidId")
           ELSE IF index = 0
             THEN DownloadResponse(param, TRUE, 404, "submissionNotFound")
           ELSE IF submissions[index].swappedImagePath = NoPath
             THEN DownloadResponse(param, TRUE, 404, "imageNotFound")
           ELSE [ DownloadResponse(param, TRUE, 0, "") EXCEPT
                    !.pc = "fs.access", !.path = submissions[index].swappedImagePath ]
  /\ UNCHANGED << now, apiKey, rateLimitStore, reqs, started, submissions, submissionId,
                  disk, dels, detail, window, deletedOk, camera >>

\* a handler that sends the file without looking at the answer of fs.access
fsAccessIgnored ==
  /\ Downloading
  /\ call' = [ call EXCEPT !.pc = "done", !.status = 200, !.resp = "sendFile" ]
  /\ UNCHANGED << now, apiKey, rateLimitStore, reqs, started, submissions, submissionId,
                  disk, dels, detail, window, deletedOk, camera >>

\* fs.access answers: the file is sent, or 404
fsAccess ==
  /\ Downloading
  /\ call' = IF call.path \in DOMAIN disk
               THEN [ call EXCEPT !.pc = "done", !.status = 200, !.resp = "sendFile" ]
               ELSE [ call EXCEPT !.pc = "done", !.status = 404, !.resp = "fileNotFound" ]
  /\ UNCHANGED << now, apiKey, rateLimitStore, reqs, started, submissions, submissionId,
                  disk, dels, detail, window, deletedOk, camera >>

(***************************************************************************)
(* DELETE /submissions/:id: validateObjectId, then deleteSubmission, which *)
(* awaits FaceSwapAPI.cleanup (one fs.unlink per file) and then splices.   *)
(***************************************************************************)
\* submissions.splice(submissionIndex, 1), with the index found before the
\* await
Splice(list, index) ==
  IF index > Len(list) THEN list
  ELSE SubSeq(list, 1, index - 1) \o SubSeq(list, index + 1, Len(list))

\* a DELETE request arrives in the first free slot, d; the handler runs up to
\* the await of cleanup
deleteSubmission(d, param) ==
  /\ dels[d].pc = "idle"
  /\ \A e \in DeleteSlots : e < d => dels[e].pc # "idle"
  /\ LET id == ParamOf[param].id
         index == FindIndex(submissions, id)
     IN  dels' = [ dels EXCEPT ![d] =
           IF ParamOf[param].refused # 0
             THEN [ @ EXCEPT !.pc = "done", !.status = ParamOf[param].refused ]
           ELSE IF index = 0
             THEN [ @ EXCEPT !.pc = "done", !.status = 404, !.target = id ]
           ELSE [ @ EXCEPT !.pc = "cleanup", !.target = id, !.index = index,
                           !.files = << submissions[index].originalImagePath,
                                        submissions[index].swappedImagePath >>,
                           !.k = 1 ] ]
  /\ UNCHANGED << now, apiKey, rateLimitStore, reqs, started, submissions, submissionId,
                  disk, detail, window, deletedOk, call, camera >>

\* cleanup: fs.unlink of the k-th file answers (a missing file is logged and
\* skipped); after the last one the handler splices and answers
cleanup(d) ==
  /\ dels[d].pc = "cleanup"
  /\ disk' = Remove(disk, dels[d].files[dels[d].k])
  /\ IF dels[d].k < Len(dels[d].files)
       THEN /\ dels' = [ dels EXCEPT ![d].k = @ + 1 ]
            /\ UNCHANGED << submissions, deletedOk, camera >>
       ELSE /\ submissions' = Splice(submissions, dels[d].index)
            /\ dels' = [ dels EXCEPT ![d].pc = "done", ![d].status = 200 ]
            /\ deletedOk' = deletedOk \cup { dels[d].target }
  /\ UNCHANGED << now, apiKey, rateLimitStore, reqs, started, submissionId, detail,
                  window, call, camera >>

\* the response has been sent and the slot is free again
EndDelete(d) ==
  /\ dels[d].pc = "done"
  /\ dels' = [ dels EXCEPT ![d] = IdleDelete ]
  /\ UNCHANGED << now, apiKey, rateLimitStore, reqs, started, submissions, submissionId,
                  disk, detail, window, deletedOk, call, camera >>

(***************************************************************************)
(* GET /submissions: validateSubmissionsQuery, then renderSubmissions.     *)
(* req.query holds page, limit and sort, each a string or undefined.       *)
(***************************************************************************)
allowedSortFields ==
  { << "n","a","m","e" >>, << "e","m","a","i","l" >>,
    << "c","r","e","a","t","e","d","A","t" >>, << "u","p","d","a","t","e","d","A","t" >> }

CreatedAtField == << "c","r","e","a","t","e","d","A","t" >>

\* pageNum
QueryPage(page) ==
  IF ~Truthy(page) THEN 1
  ELSE IF isNaN(parseInt(sanitizeInput(page))) \/ parseInt(sanitizeInput(page)) < 1 THEN 1
  ELSE parseInt(sanitizeInput(page))

\* a limit that is not held under 50
QueryLimitUncapped(limit) ==
  IF ~Truthy(limit) THEN 10
  ELSE IF isNaN(parseInt(sanitizeInput(limit))) \/ parseInt(sanitizeInput(limit)) < 1 THEN 10
  ELSE parseInt(sanitizeInput(limit))

\* limitNum
QueryLimit(limit) ==
  IF ~Truthy(limit) THEN 10
  ELSE IF \/ isNaN(parseInt(sanitizeInput(limit)))
          \/ parseInt(sanitizeInput(limit)) < 1
          \/ parseInt(sanitizeInput(limit)) > 50 THEN 10
  ELSE parseInt(sanitizeInput(limit))

\* sortField and sortOrder
QuerySort(sort) ==
  LET sortValue == sanitizeInput(sort)
      dash == sortValue # << >> /\ sortValue[1] = "-"
      sortField == IF dash THEN Drop(sortValue, 2) ELSE sortValue
  IN  IF ~Truthy(sort) THEN [ sortBy |-> CreatedAtField, sortOrder |-> 0 - 1 ]
      ELSE IF sortField \notin allowedSortFields
        THEN [ sortBy |-> CreatedAtField, sortOrder |-> 0 - 1 ]
      ELSE [ sortBy |-> sortField, sortOrder |-> IF dash THEN 0 - 1 ELSE 1 ]

\* validateSubmissionsQuery: req.queryOptions; it always calls next
validateSubmissionsQuery(query) ==
  [ page |-> QueryPage(query.page),
    limit |-> QueryLimit(query.limit),
    skip |-> (QueryPage(query.page) - 1) * QueryLimit(query.limit),
    sortBy |-> QuerySort(query.sort).sortBy,
    sortOrder |-> QuerySort(query.sort).sortOrder ]

\* x || d for a number x
OrDefault(x, d) == IF isNaN(x) \/ x = 0 THEN d ELSE x

Min(a, b) == IF a < b THEN a ELSE b
Max(a, b) == IF a > b THEN a ELSE b

\* the primary weight of a character in String.prototype.localeCompare:
\* white space, then punctuation, then digits, then letters without regard
\* to case
PrimaryWeight(c) ==
  IF IsAlpha(c)
    THEN 100 + (CHOOSE i \in DOMAIN LowerChars : LowerChars[i] = ToLowerChar(c))
  ELSE IF IsDigit(c) THEN 50 + DigitValue(c)
  ELSE IF c = " " THEN 1
  ELSE IF c = "_" THEN 2
  ELSE IF c = "-" THEN 3
  ELSE IF c = "." THEN 4
  ELSE IF c = "@" THEN 5
  ELSE 9

\* the first position where a and b differ by ok, or 0
FirstDifference(a, b, ok(_, _)) ==
  IF \E i \in 1..Min(Len(a), Len(b)) : ~ok(a[i], b[i])
    THEN CHOOSE i \in 1..Min(Len(a), Len(b)) :
           ~ok(a[i], b[i]) /\ \A j \in 1..(i - 1) : ok(a[j], b[j])
    ELSE 0

SameWeight(c, d) == PrimaryWeight(c) = PrimaryWeight(d)
SameChar(c, d) == c = d

\* a.localeCompare(b) < 0: the primary weights decide; between strings that
\* differ in case only, the lower-case letter comes first
LocaleBefore(a, b) ==
  LET i == FirstDifference(a, b, SameWeight)
      j == FirstDifference(a, b, SameChar)
  IN  IF i # 0 THEN PrimaryWeight(a[i]) < PrimaryWeight(b[i])
      ELSE IF Len(a) # Len(b) THEN Len(a) < Len(b)
      ELSE j # 0 /\ IsLower(a[j])

\* the comparator of renderSubmissions gives a negative number for (a, b)
SortsBefore(a, b, sort) ==
  IF sort = << "n","a","m","e" >> THEN LocaleBefore(a.name, b.name)
  ELSE IF sort = << "e","m","a","i","l" >> THEN LocaleBefore(a.email, b.email)
  ELSE b.createdAt < a.createdAt

\* x put into the sorted list acc, behind the items it does not sort before
RECURSIVE InsertSorted(_, _, _, _)
InsertSorted(acc, x, sort, i) ==
  IF i > Len(acc) THEN Append(acc, x)
  ELSE IF SortsBefore(x, acc[i], sort)
    THEN SubSeq(acc, 1, i - 1) \o << x >> \o SubSeq(acc, i, Len(acc))
  ELSE InsertSorted(acc, x, sort, i + 1)

\* [...submissions].sort(comparator): the sort is stable
RECURSIVE SortFrom(_, _, _, _)
SortFrom(list, sort, i, acc) ==
  IF i > Len(list) THEN acc
  ELSE SortFrom(list, sort, i + 1, InsertSorted(acc, list[i], sort, 1))

sortedSubmissions(list, sort) == SortFrom(list, sort, 1, << >>)

\* an index of Array.prototype.slice, brought into 0..length
SliceIndex(k, length) == IF k < 0 THEN Max(length + k, 0) ELSE Min(k, length)

\* a slice that starts one item late
SliceLate(list, start, end) ==
  SubSeq(list, SliceIndex(start, Len(list)) + 2, SliceIndex(end, Len(list)))

\* list.slice(start, end)
Slice(list, start, end) ==
  SubSeq(list, SliceIndex(start, Len(list)) + 1, SliceIndex(end, Len(list)))

\* Math.ceil(n / d) for n >= 0 and d # 0
CeilDiv(n, d) == IF d > 0 THEN (n + d - 1) \div d ELSE 0 - (n \div (0 - d))

(***************************************************************************)
(* SubmissionModel.findAll over a collection of documents, in the order    *)
(* of their insertion.                                                     *)
(***************************************************************************)
\* the code unit of a character, by which the collection compares strings
CodeUnit(c) ==
  IF IsDigit(c) THEN 48 + DigitValue(c)
  ELSE IF IsUpper(c) THEN 64 + (CHOOSE i \in DOMAIN UpperChars : UpperChars[i] = c)
  ELSE IF IsLower(c) THEN 96 + (CHOOSE i \in DOMAIN LowerChars : LowerChars[i] = c)
  ELSE IF c = " " THEN 32
  ELSE IF c = "-" THEN 45
  ELSE IF c = "." THEN 46
  ELSE IF c = "@" THEN 64
  ELSE IF c = "_" THEN 95
  ELSE 33

\* a < b for two strings of the collection
BinaryBefore(a, b) ==
  LET i == FirstDifference(a, b, SameChar)
  IN  IF i # 0 THEN CodeUnit(a[i]) < CodeUnit(b[i]) ELSE Len(a) < Len(b)

\* a < b for the values of the field sortBy of two documents; a document is
\* inserted with updatedAt equal to createdAt
FieldBefore(a, b, sortBy) ==
  IF sortBy = << "n","a","m","e" >> THEN BinaryBefore(a.name, b.name)
  ELSE IF sortBy = << "e","m","a","i","l" >> THEN BinaryBefore(a.email, b.email)
  ELSE a.createdAt < b.createdAt

\* document a comes before document b under sort({ [sortBy]: sortOrder })
CursorBefore(a, b, sorting) ==
  IF sorting.sortOrder = 1 THEN FieldBefore(a, b, sorting.sortBy)
  ELSE FieldBefore(b, a, sorting.sortBy)

RECURSIVE CursorInsert(_, _, _, _)
CursorInsert(acc, x, sorting, i) ==
  IF i > Len(acc) THEN Append(acc, x)
  ELSE IF CursorBefore(x, acc[i], sorting)
    THEN SubSeq(acc, 1, i - 1) \o << x >> \o SubSeq(acc, i, Len(acc))
  ELSE CursorInsert(acc, x, sorting, i + 1)

RECURSIVE CursorSortFrom(_, _, _, _)
CursorSortFrom(list, sorting, i, acc) ==
  IF i > Len(list) THEN acc
  ELSE CursorSortFrom(list, sorting, i + 1, CursorInsert(acc, list[i], sorting, 1))

\* find({}).sort({ [sortBy]: sortOrder })
CursorSort(list, sorting) == CursorSortFrom(list, sorting, 1, << >>)

\* findAll(options): the cursor skips before it limits, in whatever order
\* limit and skip were called
findAll(collection, options) ==
  SubSeq(CursorSort(collection, options),
         options.skip + 1,
         Min(options.skip + options.limit, Len(collection)))

\* the page and the pagination renderSubmissions hands to the template
Listing(list, query) ==
  LET page == OrDefault(parseInt(query.page), 1)
      limit == Min(OrDefault(parseInt(query.limit), 10), 50)
      sort == IF Truthy(query.sort) THEN query.sort ELSE CreatedAtField
      startIndex == (page - 1) * limit
      endIndex == startIndex + limit
      totalPages == CeilDiv(Len(list), limit)
  IN  [ op |-> "renderSubmissions",
        query |-> query,
        queryOptions |-> validateSubmissionsQuery(query),
        submissions |-> Slice(sortedSubmissions(list, sort), startIndex, endIndex),
        pagination |-> [ totalCount |-> Len(list),
                         currentPage |-> page,
                         totalPages |-> totalPages,
                         hasNext |-> page < totalPages,
                         hasPrev |-> page > 1,
                         nextPage |-> page + 1,
                         prevPage |-> page - 1 ] ]

\* GET /submissions with the query
renderSubmissions(query) ==
  /\ call' = Listing(submissions, query)
  /\ UNCHANGED << now, apiKey, rateLimitStore, reqs, started, submissions, submissionId,
                  disk, dels, detail, window, deletedOk, camera >>

\* SubmissionModel.findAll with the options validateSubmissionsQuery makes of
\* the query, over the records of the store
findAllOf(query) ==
  /\ call' = [ op |-> "findAll",
               query |-> query,
               options |-> validateSubmissionsQuery(query),
               documents |-> findAll(submissions, validateSubmissionsQuery(query)) ]
  /\ UNCHANGED << now, apiKey, rateLimitStore, reqs, started, submissions, submissionId,
                  disk, dels, detail, window, deletedOk, camera >>

(***************************************************************************)
(* The server: POST /submit and DELETE /submissions/:id requests           *)
(* interleaved at their awaits.                                            *)
(***************************************************************************)
\* a step of the POST /submit request in slot r
SubmitStep(r) ==
  \/ handleUpload(r)
  \/ validateImageStat(r)
  \/ validateImageReadFile(r)
  \/ swapFaceReadFile(r)
  \/ swapFaceCopyFile(r)
  \/ swapFaceReturns(r)
  \/ EndRequest(r)

Next ==
  \/ \E r \in Slots, ip \in { "10.0.0.1" }, in \in Inputs :
       started < MaxSubmits /\ rateLimit(r, ip, in)
  \/ \E r \in Slots : SubmitStep(r)
  \/ \E d \in DeleteSlots, param \in IdParams : deleteSubmission(d, param)
  \/ \E d \in DeleteSlots : cleanup(d)
  \/ \E d \in DeleteSlots : EndDelete(d)

Spec == Init /\ [][Next]_vars

(***************************************************************************)
(* The rate limiter alone: one client connection at a time, from two       *)
(* addresses, sending requests without a file while time passes.           *)
(***************************************************************************)
NextRate ==
  \/ \E ip \in IPs :
       /\ started < MaxRateRequests
       /\ rateLimit(1, ip, [ body |-> ValidBody, upload |-> NoUpload ])
  \/ handleUpload(1)
  \/ EndRequest(1)
  \/ Tick

SpecRate == Init /\ [][NextRate]_vars

(***************************************************************************)
(* Create and read back: complete submissions and GET /submissions/:id.    *)
(***************************************************************************)
NextRead ==
  \/ \E r \in Slots :
       /\ started < MaxSubmits
       /\ rateLimit(r, "10.0.0.1", [ body |-> ValidBody, upload |-> JpegUpload ])
  \/ \E r \in Slots : SubmitStep(r)
  \/ \E param \in IdParams : getSubmissionDetails(param)

SpecRead == Init /\ [][NextRead]_vars

(***************************************************************************)
(* The rate limiter.                                                       *)
(***************************************************************************)
\* C1: for each address, the requests 1 to 10 of a fifteen-minute window pass
\* the rate limiter and the 11th and later ones are answered 429; the window
\* starts with the first request of the address or with its first request
\* after the reset time, which passes and is counted as 1.
C1_RateLimit ==
  \A r \in Slots :
    reqs[r].pc # "idle" =>
      /\ (reqs[r].status = 429 /\ reqs[r].resp = "tooManyRequests") <=> reqs[r].ordinal > 10
      /\ reqs[r].ordinal <= 10 => reqs[r].resp # "tooManyRequests" /\ reqs[r].status # 429
      /\ rateLimitStore[reqs[r].ip].count = window[reqs[r].ip].n
      /\ rateLimitStore[reqs[r].ip].resetTime = window[reqs[r].ip].start + FifteenMinutes

\* a request is the first of a second window and has passed, and some
\* address has had its 11th request in a window
C1_Witness ==
  \E r \in Slots :
    /\ reqs[r].pc = "handleUpload"
    /\ reqs[r].ordinal = 1
    /\ window[reqs[r].ip].start > FifteenMinutes
    /\ \E ip \in DOMAIN window : window[ip].n = 11

(***************************************************************************)
(* Creating a submission.                                                  *)
(***************************************************************************)
\* the request in slot r has been answered with success
Accepted(r) == reqs[r].pc = "done" /\ reqs[r].status = 200

\* C2: every record of the submission store is pushed by a POST /submit
\* request whose image the upload handler has stored and which has passed
\* validateSubmission without errors; no step adds a record otherwise.
C2_RecordHasUploadAndValidation ==
  [][ submissions' # submissions /\ Len(submissions') >= Len(submissions) =>
        \E r \in Slots :
          /\ reqs[r].pc = "swapFace.timer"
          /\ Stores(reqs[r])
          /\ reqs[r].file.stored
          /\ reqs[r].validatedData.set
          /\ ValidationErrors(reqs[r].body, reqs[r].file) = << >>
          /\ submissions' = Append(submissions, submissions'[Len(submissions')])
          /\ submissions'[Len(submissions')].originalImagePath = reqs[r].file.path ]_vars

\* a request has been accepted and its record is in the store
C2_Witness ==
  \E r \in Slots :
    /\ Accepted(r)
    /\ reqs[r].validatedData.set
    /\ \E i \in DOMAIN submissions : submissions[i].id = reqs[r].submissionId

\* C3: every record of the submission store has terms equal to true,
\* whatever the terms field of the request was (absent, empty, 'on', 'off').
C3_StoredTermsAccepted ==
  \A i \in DOMAIN submissions : submissions[i].terms = TRUE

\* C4: the email of the record of an accepted request is the lower-cased
\* form of the email the request submitted.
C4_StoredEmailLowerCased ==
  \A r \in Slots :
    Accepted(r) =>
      \A i \in DOMAIN submissions :
        submissions[i].id = reqs[r].submissionId =>
          submissions[i].email = ToLowerCase(reqs[r].body.email)

\* C5: GET /submissions/:id with the submissionId of a create response
\* answers 200 with that record, its status completed, a swapped image and
\* a processing time of 0 or more.
C5_CreateThenDetail ==
  [][ \A r \in Slots :
        ( /\ Accepted(r)
          /\ detail' # detail
          /\ detail'.param = NumberToString(reqs[r].submissionId) ) =>
            /\ detail'.status = 200
            /\ detail'.body.found
            /\ detail'.body.id = reqs[r].submissionId
            /\ detail'.body.name = reqs[r].body.name
            /\ detail'.body.status = "completed"
            /\ detail'.body.swappedImageUrl = reqs[r].out.path
            /\ detail'.body.processingTime >= 0 ]_vars

\* C6: when handleUpload or validateSubmission answers 400, the request has
\* created no record and no file of it remains under uploads/original.
C6_RejectedLeavesNothing ==
  \A r \in Slots :
    ( /\ reqs[r].pc = "done"
      /\ reqs[r].status = 400
      /\ reqs[r].resp \in { "uploadError", "validationError" } ) =>
        /\ reqs[r].submissionId = 0
        /\ reqs[r].file.stored => reqs[r].file.path \notin DOMAIN disk

\* C7: when swapFace fails, the request is answered 500, no record is added
\* and no file is removed: the uploaded original stays where it is.
C7_SwapFailure ==
  [][ \A r \in Slots :
        ( /\ reqs[r].pc # "done"
          /\ reqs'[r].pc = "done"
          /\ reqs'[r].swapInvoked
          /\ reqs'[r].status # 200 ) =>
            /\ reqs'[r].status = 500
            /\ reqs'[r].submissionId = 0
            /\ submissions' = submissions
            /\ submissionId' = submissionId
            /\ disk' = disk ]_vars

\* swapFace has failed for a request whose upload is on disk
C7_Witness ==
  \E r \in Slots :
    /\ reqs[r].pc = "done"
    /\ reqs[r].swapInvoked
    /\ reqs[r].status = 500
    /\ reqs[r].file.path \in DOMAIN disk
    /\ submissions = << >>

\* the file of the request is one validateImage takes: it exists, is at most
\* fileSize long and starts with one of the signatures
StoredImageValid(req) ==
  /\ req.file.path \in DOMAIN disk
  /\ disk[req.file.path].size <= fileSize
  /\ disk[req.file.path].size >= 4
  /\ \E k \in DOMAIN signatures :
       SubSeq(disk[req.file.path].header, 1, Len(signatures[k])) = signatures[k]

\* C8: when validateImage reports the stored file invalid, the request is
\* answered 400, swapFace is not called for it and no record is created.
C8_InvalidImage ==
  [][ \A r \in Slots :
        ( /\ reqs[r].pc = "validateImage.readFile"
          /\ reqs'[r] # reqs[r]
          /\ ~StoredImageValid(reqs[r]) ) =>
            /\ reqs'[r].pc = "done"
            /\ reqs'[r].status = 400
            /\ reqs'[r].resp = "invalidImage"
            /\ ~reqs'[r].swapInvoked
            /\ reqs'[r].submissionId = 0
            /\ submissions' = submissions ]_vars

\* a stored file has been refused by validateImage
C8_Witness ==
  \E r \in Slots :
    /\ reqs[r].pc = "done"
    /\ reqs[r].resp = "invalidImage"
    /\ reqs[r].file.stored
    /\ ~StoredImageValid(reqs[r])

(***************************************************************************)
(* The transformation.                                                     *)
(***************************************************************************)
\* C9: with no API key configured, swapFace takes the simulated path and
\* succeeds, and the request is answered 200.
C9_NoKeyFallbackSucceeds ==
  \A r \in Slots :
    (~apiKey /\ reqs[r].pc = "done" /\ reqs[r].swapInvoked) => reqs[r].status = 200

\* C9, as the code has it: with no API key swapFace throws before it reads
\* or writes a file and the request is answered 500; with a key it runs the
\* simulation, which copies the bytes of the upload into a new file under
\* uploads/swapped and, when the upload can be read and copied, returns that
\* file with a processing time of 2000, and the request is answered 200.
C9_SimulationNeedsKey ==
  [][ \A r \in Slots :
        /\ (~apiKey /\ reqs'[r].swapInvoked) =>
              /\ reqs'[r].pc = "done"
              /\ reqs'[r].status = 500
              /\ ~reqs'[r].out.stored
        /\ (~apiKey /\ ~reqs[r].swapInvoked /\ reqs'[r].swapInvoked) =>
              /\ disk' = disk
              /\ submissions' = submissions
        /\ (apiKey /\ reqs[r].pc = "swapFace.copyFile"
              /\ reqs'[r].pc = "swapFace.timer") =>
              /\ reqs[r].out.path.dir = "swapped"
              /\ disk' = Put(disk, reqs[r].out.path, disk[reqs[r].file.path])
        /\ (apiKey /\ reqs[r].pc = "swapFace.timer" /\ reqs'[r].pc = "done") =>
              /\ reqs'[r].status = 200
              /\ submissions'[Len(submissions')].swappedImagePath = reqs[r].out.path
              /\ submissions'[Len(submissions')].processingTime = SimulatedProcessingTime
      ]_vars

\* swapFace has been called with no API key and the request is answered
C9_Witness ==
  \E r \in Slots :
    /\ ~apiKey
    /\ reqs[r].swapInvoked
    /\ reqs[r].pc = "done"
    /\ reqs[r].status = 500

(***************************************************************************)
(* Deleting a submission.                                                  *)
(***************************************************************************)
\* C10: once a DELETE of a submission has been answered with success, the
\* submission is not found again: no record of the store has its id.
C10_DeletedIsGone ==
  \A id \in deletedOk : FindIndex(submissions, id) = 0

(***************************************************************************)
(* Listing: a store of records, as completed submissions leave it, and     *)
(* GET /submissions requests.                                              *)
(***************************************************************************)
\* records in the store
MaxRecords == 25
\* the largest page asked for
MaxPage == 4

ListNames ==
  << JohnDoe, << "a","n","n","a"," ","L","e","e" >>, << "A","n","n","a"," ","L","e","e" >>, << "B","o","b"," ","R","a","y" >> >>
ListEmails ==
  << JohnEmail, << "a","n","n","a","@","e","x","a","m","p","l","e",".","c","o","m" >>, << "B","o","b","_","r","a","y","@","e","x","a","m","p","l","e",".","c","o","m" >> >>

\* the record of the i-th completed submission; two submissions complete in
\* each millisecond
RecordAt(i) ==
  NewSubmission(i,
    [ body |-> [ name |-> ListNames[(i % 4) + 1], email |-> ListEmails[(i % 3) + 1],
                 phone |-> Phone10, terms |-> On ],
      file |-> [ stored |-> TRUE, path |-> OriginalPath(i \div 2, i, ".jpg") ],
      out |-> [ stored |-> TRUE, path |-> SwappedPath(i \div 2, i, ".jpg") ] ],
    i \div 2)

\* the store after n submissions
StoreOf(n) == [ i \in 1..n |-> RecordAt(i) ]

\* the values of page, limit and sort in the query string
PageParams ==
  { Undefined, << >>, << "-","1" >>, << "a","b","c" >>, << "2","x" >> }
    \cup { NumberToString(n) : n \in 0..MaxPage }
LimitParams ==
  { Undefined, << >>, << "-","5" >>, << "a","b","c" >>, << "7","x" >> }
    \cup { NumberToString(n) : n \in { 0, 1, 7, 10, 50, 51 } }
SortParams ==
  { Undefined, << >>, << "-" >>, << "i","d" >>, << "<","b",">","n","a","m","e","<","/","b",">" >> }
    \cup allowedSortFields \cup { << "-" >> \o f : f \in allowedSortFields }
Queries == [ page : PageParams, limit : LimitParams, sort : SortParams ]

InitList ==
  /\ now = 0
  /\ apiKey = TRUE
  /\ rateLimitStore = << >>
  /\ reqs = [ r \in Slots |-> IdleRequest ]
  /\ started = 0
  /\ \E n \in 0..MaxRecords : submissions = StoreOf(n) /\ submissionId = n + 1
  /\ disk = << >>
  /\ dels = [ d \in DeleteSlots |-> IdleDelete ]
  /\ detail = NoDetail
  /\ window = << >>
  /\ deletedOk = { }
  /\ call = NoCall
  /\ camera = NoCamera

\* the queries of the list requests
ListQueries ==
  [ page : { Undefined, << "0" >>, << "-","1" >> }
             \cup { NumberToString(n) : n \in 1..MaxPage },
    limit : { Undefined, << "-","5" >> }
              \cup { NumberToString(n) : n \in { 0, 1, 7, 10, 50, 51 } },
    sort : { Undefined, << "n","a","m","e" >>, << "e","m","a","i","l" >>,
             << "-","n","a","m","e" >>, CreatedAtField } ]

\* one request in a behaviour: a request leaves the store as it is
NextList ==
  \/ \E query \in ListQueries : call = NoCall /\ renderSubmissions(query)
  \/ \E query \in ListQueries : call = NoCall /\ findAllOf(query)

SpecList == InitList /\ [][NextList]_vars

\* the least c with c * l >= n
PagesFor(n, l) == CHOOSE c \in 0..n : c * l >= n /\ (c = 0 \/ (c - 1) * l < n)

\* order holds the records of list, each once, and no record of it sorts
\* before the one in front of it
IsOrderOf(order, list, before(_, _)) ==
  /\ Len(order) = Len(list)
  /\ { order[i].id : i \in DOMAIN order } = { list[i].id : i \in DOMAIN list }
  /\ \A i \in DOMAIN order : order[i] \in Range(list)
  /\ \A i \in 1..(Len(order) - 1) : ~before(order[i + 1], order[i])

\* the items of order at the positions (p - 1) * l + 1 .. min(p * l, n)
PageOf(order, p, l) ==
  [ k \in 1..Max(0, Min(p * l, Len(order)) - (p - 1) * l) |-> order[(p - 1) * l + k] ]

\* C11: for a store of N records, a list request with page p >= 1 and limit
\* l in 1..50 gets the records at the positions (p - 1) * l + 1 .. min(p * l, N)
\* of the sort order, with hasNext = (p < ceil(N / l)) and hasPrev = (p > 1);
\* findAll gives the same positions of its own sort order.
C11_Pagination ==
  \A p \in 1..MaxPage, l \in 1..50 :
    (call.op # "" /\ call.query.page = NumberToString(p)
                  /\ call.query.limit = NumberToString(l)) =>
      /\ call.op = "renderSubmissions" =>
           LET sort == IF call.query.sort = Undefined THEN CreatedAtField ELSE call.query.sort
               order == sortedSubmissions(submissions, sort)
               before(a, b) == SortsBefore(a, b, sort)
           IN  /\ IsOrderOf(order, submissions, before)
               /\ call.submissions = PageOf(order, p, l)
               /\ call.pagination.hasNext = (p < PagesFor(Len(submissions), l))
               /\ call.pagination.hasPrev = (p > 1)
               /\ call.pagination.totalCount = Len(submissions)
      /\ call.op = "findAll" =>
           LET order == CursorSort(submissions, call.options)
               before(a, b) == CursorBefore(a, b, call.options)
           IN  /\ IsOrderOf(order, submissions, before)
               /\ call.documents = PageOf(order, p, l)

\* page 2 with limit 10 of 25 records: the records 11 to 20, newest first,
\* and both flags
C11_Witness ==
  /\ call.op = "renderSubmissions"
  /\ Len(submissions) = 25
  /\ call.query = [ page |-> << "2" >>, limit |-> << "1","0" >>, sort |-> Undefined ]
  /\ Len(call.submissions) = 10
  /\ call.submissions[1].id = 14
  /\ call.submissions[10].id = 7
  /\ call.pagination.hasNext
  /\ call.pagination.hasPrev

(***************************************************************************)
(* The query validator alone, over the query strings.                      *)
(***************************************************************************)
\* validateSubmissionsQuery runs for a GET /submissions request; next is
\* whether it called next, status what it answered itself (0: nothing)
queryValidated(query) ==
  /\ call = NoCall
  /\ call' = [ op |-> "validateSubmissionsQuery",
               query |-> query,
               next |-> TRUE,
               status |-> 0,
               queryOptions |-> validateSubmissionsQuery(query) ]
  /\ UNCHANGED << now, apiKey, rateLimitStore, reqs, started, submissions, submissionId,
                  disk, dels, detail, window, deletedOk, camera >>

NextQuery == \E query \in Queries : queryValidated(query)

SpecQuery == Init /\ [][NextQuery]_vars

\* s is a number written in digits, with or without a sign
IsNumeric(s) ==
  LET d == IF s # << >> /\ s[1] \in { "-", "+" } THEN Drop(s, 2) ELSE s
  IN  d # << >> /\ \A i \in DOMAIN d : IsDigit(d[i])

\* the number s writes
NumericValue(s) == CHOOSE n \in (0 - 60)..60 : s = NumberToString(n) \/ s = << "-" >> \o NumberToString(0 - n)

\* C12, as stated: validateSubmissionsQuery answers no error for any query
\* and makes options with page >= 1 (1 when page is absent, not numeric or
\* under 1), limit in 1..50 (10 when absent, not numeric or out of range),
\* sortBy in the allow-list (createdAt descending when sort is absent or not
\* in the list) and skip = (page - 1) * limit.
C12_NonNumericGetsDefault ==
  call.op = "validateSubmissionsQuery" =>
    LET q == call.query
        o == call.queryOptions
    IN  /\ call.next /\ call.status = 0
        /\ o.page >= 1
        /\ o.limit \in 1..50
        /\ o.sortBy \in allowedSortFields
        /\ o.skip = (o.page - 1) * o.limit
        /\ (q.page = Undefined \/ ~IsNumeric(q.page)) => o.page = 1
        /\ (q.page # Undefined /\ IsNumeric(q.page)) =>
             o.page = IF NumericValue(q.page) < 1 THEN 1 ELSE NumericValue(q.page)
        /\ (q.limit = Undefined \/ ~IsNumeric(q.limit)) => o.limit = 10
        /\ (q.limit # Undefined /\ IsNumeric(q.limit)) =>
             o.limit = IF NumericValue(q.limit) \in 1..50 THEN NumericValue(q.limit) ELSE 10
        /\ (q.sort = Undefined \/ q.sort \notin
              (allowedSortFields \cup { << "-" >> \o f : f \in allowedSortFields }))
             => (o.sortBy = CreatedAtField /\ o.sortOrder = 0 - 1)

\* C12, as the code has it: validateSubmissionsQuery answers no error for any
\* query and makes options with page >= 1, limit in 1..50, sortBy in the
\* allow-list and skip = (page - 1) * limit; page and limit are what parseInt
\* reads at the start of the sanitized value, so that 2x is page 2 and 7x is
\* limit 7, and are 1 and 10 when the value is absent, starts with no number
\* or is out of range; sort is a field of the allow-list after sanitization,
\* descending with a leading dash, and createdAt descending otherwise.
C12_QueryOptions ==
  call.op = "validateSubmissionsQuery" =>
    LET q == call.query
        o == call.queryOptions
    IN  /\ call.next /\ call.status = 0
        /\ o.page >= 1
        /\ o.limit \in 1..50
        /\ o.sortBy \in allowedSortFields
        /\ o.sortOrder \in { 1, 0 - 1 }
        /\ o.skip = (o.page - 1) * o.limit
        /\ q.page \in { Undefined, << >>, << "a","b","c" >>, << "-","1" >>, << "0" >> }
             => o.page = 1
        /\ \A n \in 1..MaxPage : q.page = NumberToString(n) => o.page = n
        /\ q.page = << "2","x" >> => o.page = 2
        /\ q.limit \in { Undefined, << >>, << "a","b","c" >>, << "-","5" >>, << "0" >>,
                         << "5","1" >> } => o.limit = 10
        /\ \A n \in 1..50 : q.limit = NumberToString(n) => o.limit = n
        /\ q.limit = << "7","x" >> => o.limit = 7
        /\ q.sort \in { Undefined, << >>, << "-" >>, << "i","d" >> }
             => o.sortBy = CreatedAtField /\ o.sortOrder = 0 - 1
        /\ q.sort = << "<","b",">","n","a","m","e","<","/","b",">" >>
             => o.sortBy = << "n","a","m","e" >> /\ o.sortOrder = 1
        /\ \A f \in allowedSortFields :
             /\ q.sort = f => o.sortBy = f /\ o.sortOrder = 1
             /\ q.sort = << "-" >> \o f => o.sortBy = f /\ o.sortOrder = 0 - 1

\* a query with a page and a limit that start with digits and go on with a
\* letter, and a sort field that is not allowed
C12_Witness ==
  /\ call.op = "validateSubmissionsQuery"
  /\ call.query = [ page |-> << "2","x" >>, limit |-> << "7","x" >>,
                    sort |-> << "i","d" >> ]
  /\ call.queryOptions.page = 2
  /\ call.queryOptions.limit = 7
  /\ call.queryOptions.sortBy = CreatedAtField

(***************************************************************************)
(* The /submissions/:id routes over a store of completed submissions with  *)
(* their files on disk.                                                    *)
(***************************************************************************)
\* records in the store of the routes
MaxStored == 2

\* the files of the first n submissions
DiskOf(n) ==
  [ path \in { RecordAt(i).originalImagePath : i \in 1..n }
               \cup { RecordAt(i).swappedImagePath : i \in 1..n } |->
      [ header |-> JpegUpload.header, size |-> JpegUpload.size ] ]

InitId ==
  /\ now = 0
  /\ apiKey = TRUE
  /\ rateLimitStore = << >>
  /\ reqs = [ r \in Slots |-> IdleRequest ]
  /\ started = 0
  /\ \E n \in 0..MaxStored :
       submissions = StoreOf(n) /\ submissionId = n + 1 /\ disk = DiskOf(n)
  /\ dels = [ d \in DeleteSlots |-> IdleDelete ]
  /\ detail = NoDetail
  /\ window = << >>
  /\ deletedOk = { }
  /\ call = NoCall
  /\ camera = NoCamera

\* one DELETE request at a time
NextId ==
  \/ \E param \in PathParams : getSubmissionDetails(param)
  \/ \E param \in PathParams : downloadSwappedImage(param)
  \/ fsAccess
  \/ \E param \in PathParams : deleteSubmission(1, param)
  \/ cleanup(1)
  \/ EndDelete(1)

SpecId == InitId /\ [][NextId]_vars

\* the hexadecimal digits
HexDigits ==
  { "0","1","2","3","4","5","6","7","8","9",
    "a","b","c","d","e","f","A","B","C","D","E","F" }

\* for each id of the model: after sanitization it is 24 hexadecimal digits
WellFormedId ==
  [ param \in PathParams |->
      /\ Len(sanitizeInput(param)) = 24
      /\ \A i \in 1..24 : sanitizeInput(param)[i] \in HexDigits ]

\* C13: validateObjectId lets a detail, download or delete request go on to
\* its handler iff the id of the path, after sanitization, is exactly 24
\* hexadecimal digits; otherwise it answers 400 and the handler does not run.
C13_IdentifierValidator ==
  [][ \A param \in PathParams :
        /\ (detail' # detail /\ getSubmissionDetails(param)) =>
             /\ WellFormedId[param] => detail'.status \in { 200, 404 }
             /\ ~WellFormedId[param] => detail'.status = 400 /\ ~detail'.body.found
        /\ (call' # call /\ downloadSwappedImage(param)) =>
             /\ call'.handled <=> WellFormedId[param]
             /\ ~WellFormedId[param] => call'.status = 400
        /\ \A d \in DeleteSlots :
             (dels'[d] # dels[d] /\ deleteSubmission(d, param)) =>
               /\ WellFormedId[param] =>
                    (dels'[d].pc = "cleanup" \/ dels'[d].status = 404)
               /\ ~WellFormedId[param] =>
                    (dels'[d].pc = "done" /\ dels'[d].status = 400)
    ]_vars

\* an id of 25 digits has been refused by the detail route, and the download
\* and delete handlers are running for ids of 24 digits
C13_Witness ==
  /\ detail.param = << "0" >> \o Pad24(1)
  /\ detail.status = 400
  /\ call.op = "downloadSwappedImage" /\ call.handled /\ call.param = Pad24(1)
  /\ \E d \in DeleteSlots : dels[d].pc = "cleanup"

(***************************************************************************)
(* The validator of the form called on its own: each behaviour is one call *)
(* of validateSubmission on a body and a req.file.                         *)
(***************************************************************************)
\* req.file of the calls: none, a JPEG, a JPEG of exactly the limit and of
\* one byte more, and files of another type (multer refuses the last three
\* on the route; the validator tests them all the same)
FormFiles ==
  { NoFile }
  \cup { [ stored |-> TRUE, path |-> OriginalPath(0, 1, ".jpg"),
           mimetype |-> m, size |-> n ] :
           m \in { "image/jpeg", "image/gif" },
           n \in { 10240, fileSize, fileSize + 1 } }

\* validateSubmission(req, res, next) on a request with this body and file
submissionValidated(body, file) ==
  /\ call = NoCall
  /\ LET req == validateSubmission([ IdleRequest EXCEPT !.pc = "validateSubmission",
                                                        !.body = body, !.file = file ])
     IN  call' = [ op |-> "validateSubmission", body |-> body, file |-> file,
                   status |-> req.status, errors |-> req.errors,
                   formData |-> req.formData, validatedData |-> req.validatedData,
                   next |-> (req.pc = "handleSubmission") ]
  /\ UNCHANGED << now, apiKey, rateLimitStore, reqs, started, submissions,
                  submissionId, disk, dels, detail, window, deletedOk, camera >>

NextValidate ==
  \E body \in FormBodies, file \in FormFiles : submissionValidated(body, file)

SpecValidate == Init /\ [][NextValidate]_vars

\* C14: a call of validateSubmission either answers 400 with a list of error
\* messages that is not empty, sets no req.validatedData and does not call
\* next, or answers nothing, has no error message, sets req.validatedData to
\* the sanitized name and phone, the lower-cased sanitized email and terms
\* true, and calls next: one of the two, never both, never neither.
C14_ExactlyOneOutcome ==
  call.op = "validateSubmission" =>
    LET refused == /\ call.status = 400
                   /\ Len(call.errors) > 0
                   /\ \A i \in DOMAIN call.errors : call.errors[i] # ""
                   /\ ~call.validatedData.set
                   /\ ~call.next
        passed  == /\ call.status = 0
                   /\ call.errors = << >>
                   /\ call.validatedData =
                        [ set |-> TRUE,
                          name |-> sanitizeInput(OrEmpty(call.body.name)),
                          email |-> ToLowerCase(sanitizeInput(OrEmpty(call.body.email))),
                          phone |-> sanitizeInput(OrEmpty(call.body.phone)),
                          terms |-> TRUE ]
                   /\ call.next
    IN  (refused \/ passed) /\ ~(refused /\ passed)

\* a call that was refused and a request that would have passed but for its
\* name: the body of the README with a name of two letters
C14_Witness ==
  /\ call.op = "validateSubmission"
  /\ call.body = [ ValidBody EXCEPT !.name = Al ]
  /\ call.file.stored /\ call.file.size = 10240 /\ call.file.mimetype = "image/jpeg"
  /\ call.status = 400 /\ ~call.next /\ Len(call.errors) = 1

\* the rules of the form, stated on the sanitized fields
NameViolated(body) ==
  LET name == sanitizeInput(OrEmpty(body.name))
  IN  ~(/\ Len(name) \in 4..30
        /\ \A i \in DOMAIN name : IsAlpha(name[i]) \/ IsSpace(name[i]))

EmailViolated(body) == ~isEmail(sanitizeInput(OrEmpty(body.email)))

PhoneViolated(body) ==
  LET phone == sanitizeInput(OrEmpty(body.phone))
  IN  ~(Len(phone) = 10 /\ \A i \in DOMAIN phone : IsDigit(phone[i]))

\* the field is absent or empty (a field of another value than "on" is the
\* subject of C3)
TermsViolated(body) == body.terms \in { Undefined, << >> }

FileMissing(file) == ~file.stored
FileTypeViolated(file) == file.stored /\ file.mimetype \notin { "image/jpeg", "image/jpg", "image/png" }
FileSizeViolated(file) == file.stored /\ file.size > 2 * 1024 * 1024

\* the messages of each rule
NameMessages ==
  { "Name is required", "Name must be between 4 and 30 characters long",
    "Name must contain only alphabetic characters and spaces" }
EmailMessages == { "Email is required", "Please provide a valid email address" }
PhoneMessages == { "Phone number is required", "Phone number must be exactly 10 digits" }
TermsMessages == { "You must accept the Terms & Conditions" }
FileMessages ==
  { "Image is required", "Image must be in JPG, JPEG, or PNG format",
    "Image size must not exceed 2MB" }

\* the place of a message in the order name, email, phone, terms, file
MessageRank(m) ==
  CASE m \in NameMessages -> 1
    [] m \in EmailMessages -> 2
    [] m \in PhoneMessages -> 3
    [] m \in TermsMessages -> 4
    [] m \in FileMessages -> 5
    [] OTHER -> 6

\* C15: the error list of a call of validateSubmission holds a message of a
\* rule exactly when the request violates the rule (name, email, phone, terms,
\* a missing file, the file type, the file size), whatever other rules it
\* violates, and the messages stand in the order name, email, phone, terms,
\* file.
C15_EveryViolationReported ==
  call.op = "validateSubmission" =>
    LET has(ms) == \E i \in DOMAIN call.errors : call.errors[i] \in ms
    IN  /\ has(NameMessages) <=> NameViolated(call.body)
        /\ has(EmailMessages) <=> EmailViolated(call.body)
        /\ has(PhoneMessages) <=> PhoneViolated(call.body)
        /\ has(TermsMessages) <=> TermsViolated(call.body)
        /\ has({ "Image is required" }) <=> FileMissing(call.file)
        /\ has({ "Image must be in JPG, JPEG, or PNG format" }) <=> FileTypeViolated(call.file)
        /\ has({ "Image size must not exceed 2MB" }) <=> FileSizeViolated(call.file)
        /\ \A i, j \in DOMAIN call.errors :
             i < j => MessageRank(call.errors[i]) <= MessageRank(call.errors[j])
        /\ \A i \in DOMAIN call.errors : MessageRank(call.errors[i]) <= 5
        /\ call.status = 400 <=> call.errors # << >>

\* a request that violates every rule at once: six messages
C15_Witness ==
  /\ call.op = "validateSubmission"
  /\ call.status = 400
  /\ Len(call.errors) = 6
  /\ call.errors[1] \in NameMessages
  /\ call.errors[2] \in EmailMessages
  /\ call.errors[3] \in PhoneMessages
  /\ call.errors[4] \in TermsMessages
  /\ call.errors[5] = "Image must be in JPG, JPEG, or PNG format"
  /\ call.errors[6] = "Image size must not exceed 2MB"

\* the characters of white space the names of the model hold
Whitespace == { " ", "NBSP" }

\* C16: a call of validateSubmission reports no error of the name exactly
\* when the sanitized name has 4 to 30 characters, each an ASCII letter or
\* white space.
C16_NameRule ==
  call.op = "validateSubmission" =>
    LET name == sanitizeInput(OrEmpty(call.body.name))
    IN  (\A i \in DOMAIN call.errors : call.errors[i] \notin NameMessages)
        <=> /\ 4 <= Len(name) /\ Len(name) <= 30
            /\ \A i \in DOMAIN name : name[i] \in AlphaSet \cup Whitespace

\* a name of 30 letters has passed with the rest of the README's body
C16_Witness ==
  /\ call.op = "validateSubmission"
  /\ call.body = [ ValidBody EXCEPT !.name = Letters(30) ]
  /\ call.next
  /\ call.validatedData.name = Letters(30)

(***************************************************************************)
(* The sanitizer called on its own: each behaviour is one call of          *)
(* sanitizeInput on a string.                                              *)
(***************************************************************************)
MaxFragments == 3

\* the pieces the inputs are made of: the patterns the sanitizer removes,
\* halves of them, markup, entities, a control character and white space
Fragments ==
  { << "a" >>,
    << " " >>,
    << "DEL" >>,
    << "j","a","v","a" >>,
    << "s","c","r","i","p","t",":" >>,
    << "v","b" >>,
    << "o","n","x","=" >>,
    << "e","x","p","r","e","s","s","i","o","n","(" >>,
    << "<","b",">" >>,
    << "&","a","m","p",";" >>,
    << "l","t",";" >> }

RECURSIVE Concat(_)
Concat(parts) == IF parts = << >> THEN << >> ELSE Head(parts) \o Concat(Tail(parts))

\* the strings of at most MaxFragments pieces
SanitizerInputs ==
  UNION { { Concat(parts) : parts \in [ 1..n -> Fragments ] } : n \in 0..MaxFragments }

\* sanitizeInput(input)
sanitized(input) ==
  /\ call = NoCall
  /\ call' = [ op |-> "sanitizeInput", input |-> input, output |-> sanitizeInput(input) ]
  /\ UNCHANGED << now, apiKey, rateLimitStore, reqs, started, submissions,
                  submissionId, disk, dels, detail, window, deletedOk, camera >>

NextSanitize == \E input \in SanitizerInputs : sanitized(input)

SpecSanitize == Init /\ [][NextSanitize]_vars

\* C17: sanitizeInput is idempotent: sanitizing the result of a call once
\* more gives the same string.
C17_Idempotent ==
  call.op = "sanitizeInput" => sanitizeInput(call.output) = call.output

\* the ids of the records of a list
IdsOf(list) == { list[i].id : i \in DOMAIN list }

\* C18: in every step of submits and deletes interleaved at their awaits, no
\* two records of the list carry the same id, a record that stays keeps its
\* content under its id, and the id of a record that enters the list has
\* never been given out before: it is at least the counter before the step
\* and below the counter after it, and the counter never goes down.
C18_UniqueIds ==
  [][ /\ \A i, j \in DOMAIN submissions' :
           submissions'[i].id = submissions'[j].id => i = j
      /\ submissionId' >= submissionId
      /\ \A i \in DOMAIN submissions' :
           \/ \E j \in DOMAIN submissions : submissions[j] = submissions'[i]
           \/ /\ submissions'[i].id >= submissionId
              /\ submissions'[i].id < submissionId'
      /\ \A i \in DOMAIN submissions : submissions[i].id < submissionId
    ]_vars

\* two submits that were in flight together are both stored, the second after
\* the first record was answered as deleted
C18_Witness ==
  /\ 1 \in deletedOk
  /\ IdsOf(submissions) = { 2 }
  /\ submissionId = 3
  /\ \E r \in Slots : reqs[r].pc = "done" /\ reqs[r].submissionId = 1

\* C19: any two uploads have different generated names under
\* public/uploads/original and any two transformations different generated
\* names under public/uploads/swapped: two requests in flight never hold the
\* same req.file.path or the same output path, and no two records of the
\* list share an originalImagePath or a swappedImagePath.
C19_DistinctNames ==
  /\ \A r1, r2 \in Slots :
       r1 # r2 =>
         /\ (reqs[r1].file.stored /\ reqs[r2].file.stored)
              => reqs[r1].file.path # reqs[r2].file.path
         /\ (reqs[r1].out.stored /\ reqs[r2].out.stored)
              => reqs[r1].out.path # reqs[r2].out.path
  /\ \A i, j \in DOMAIN submissions :
       i # j =>
         /\ submissions[i].originalImagePath # submissions[j].originalImagePath
         /\ submissions[i].swappedImagePath # submissions[j].swappedImagePath

(***************************************************************************)
(* The size bound: POST /submit with the README's body and a JPEG of       *)
(* exactly limits.fileSize bytes or of one byte more.                      *)
(***************************************************************************)
SizeUploads ==
  { [ JpegUpload EXCEPT !.size = fileSize ],
    [ JpegUpload EXCEPT !.size = fileSize + 1 ] }

NextSize ==
  \/ \E r \in Slots, upload \in SizeUploads :
       /\ started < MaxSubmits
       /\ rateLimit(r, "10.0.0.1", [ body |-> ValidBody, upload |-> upload ])
  \/ \E r \in Slots : SubmitStep(r)

SpecSize == Init /\ [][NextSize]_vars

\* the request in slot r has been through the upload handler
Uploaded(r) == reqs[r].pc \notin { "idle", "handleUpload" } /\ reqs[r].upload.attached

\* C20: a request whose image has exactly 2,097,152 bytes is never answered
\* 400: the upload handler stores the file, validateSubmission has no message
\* for it and validateImage does not refuse it; a request whose image has
\* 2,097,153 bytes is answered 400 by the upload handler, its file is not
\* stored and no record is made for it.
C20_InclusiveBound ==
  \A r \in Slots :
    Uploaded(r) =>
      /\ reqs[r].upload.size = 2097152 =>
           /\ reqs[r].status # 400
           /\ reqs[r].file.stored
           /\ reqs[r].errors = << >>
      /\ reqs[r].upload.size = 2097153 =>
           /\ reqs[r].pc = "done" /\ reqs[r].status = 400
           /\ reqs[r].resp = "uploadError"
           /\ ~reqs[r].file.stored
           /\ reqs[r].submissionId = 0

(***************************************************************************)
(* What a refused POST /submit echoes: one connection at a time sends      *)
(* requests whose name holds markup, with a file the upload handler        *)
(* refuses or a file it stores, until the rate limiter refuses too.        *)
(***************************************************************************)
\* the README's body with the name Jo<b>, and with the name Al
EchoBodies ==
  { [ ValidBody EXCEPT !.name = << "J","o","<","b",">" >> ],
    [ ValidBody EXCEPT !.name = Al ] }

NextEcho ==
  \/ \E body \in EchoBodies, upload \in Uploads :
       /\ started < MaxRateRequests
       /\ rateLimit(1, "10.0.0.1", [ body |-> body, upload |-> upload ])
  \/ handleUpload(1)
  \/ EndRequest(1)

SpecEcho == Init /\ [][NextEcho]_vars

\* C21: a 4xx response to POST /submit that hands field values back to the
\* form (formData of the rendered page) hands back the sanitized name, email
\* and phone of the request, whichever middleware answers.
C21_EchoSanitized ==
  \A r \in Slots :
    (reqs[r].pc = "done" /\ reqs[r].status \in 400..499 /\ reqs[r].formData # NoData) =>
      /\ reqs[r].formData.name = sanitizeInput(OrEmpty(reqs[r].body.name))
      /\ reqs[r].formData.email = sanitizeInput(OrEmpty(reqs[r].body.email))
      /\ reqs[r].formData.phone = sanitizeInput(OrEmpty(reqs[r].body.phone))

(***************************************************************************)
(* SubmissionModel: the collection 'submissions' of the document store.    *)
(* The variable submissions holds the documents of the collection,         *)
(* submissionId numbers the ObjectIds the driver generates, and call holds *)
(* the last call: what it returned (result, or deleted for deleteById) and *)
(* the operations it issued on the collection.                             *)
(***************************************************************************)
MaxDocs == 2

\* the value null
null == << "null" >>

\* { ...a, ...b }
Merge(a, b) ==
  [ f \in DOMAIN a \cup DOMAIN b |-> IF f \in DOMAIN b THEN b[f] ELSE a[f] ]

\* the ids the calls are made with: ids of stored documents, a well-formed id
\* of none, a string of 12 characters, a number written out, a string of 23
\* digits and the empty string
StoreIds ==
  { Pad24(n) : n \in 1..(MaxDocs + 1) }
  \cup { << "a","b","c","d","e","f","g","h","i","j","k","l" >>,
         << "4","2" >>,
         Drop(Pad24(1), 2),
         << >> }

\* ObjectId.isValid(id) for a string: the answers the driver can give.  A
\* string of 24 hexadecimal characters is valid; a string of 12 characters
\* is taken as the 12 bytes of an id by the versions of bson that do so
\* (up to 5) and refused by the others; every other string is invalid.
isValid(id) ==
  IF IsObjectIdFormat(id) THEN { TRUE }
  ELSE IF Len(id) = 12 THEN BOOLEAN
  ELSE { FALSE }

\* the position of the document { _id: new ObjectId(id) }, 0 for none (the
\* id made of the 12 bytes of a string is the id of no document here)
FindOne(collection, id) ==
  IF \E i \in DOMAIN collection : collection[i]._id = id
    THEN CHOOSE i \in DOMAIN collection : collection[i]._id = id
    ELSE 0

\* what create is called with
SubmissionData ==
  { [ name |-> JohnDoe ],
    [ name |-> Al, createdAt |-> 1 ] }

\* what updateById is called with
UpdateData ==
  { << >>,
    [ name |-> Al ],
    [ updatedAt |-> 1 ],
    [ name |-> Al, createdAt |-> 1 ] }

\* SubmissionModel.create(submissionData)
create(submissionData) ==
  /\ submissionId <= MaxDocs
  /\ LET submission == Merge(submissionData, [ createdAt |-> now, updatedAt |-> now ])
         document   == Merge([ _id |-> Pad24(submissionId) ], submission)
     IN  /\ submissions' = Append(submissions, document)
         /\ call' = [ op |-> "create", id |-> document._id, data |-> submissionData,
                      result |-> document, queries |-> << "insertOne" >> ]
  /\ submissionId' = submissionId + 1
  /\ UNCHANGED << now, apiKey, rateLimitStore, reqs, started, disk, dels, detail,
                  window, deletedOk, camera >>

\* SubmissionModel.findById(id)
findById(id) ==
  /\ \E valid \in isValid(id) :
       call' = IF ~valid
                 THEN [ op |-> "findById", id |-> id, data |-> << >>,
                        result |-> null, queries |-> << >> ]
                 ELSE [ op |-> "findById", id |-> id, data |-> << >>,
                        result |-> IF FindOne(submissions, id) = 0 THEN null
                                   ELSE submissions[FindOne(submissions, id)],
                        queries |-> << "findOne" >> ]
  /\ UNCHANGED << now, apiKey, rateLimitStore, reqs, started, submissions,
                  submissionId, disk, dels, detail, window, deletedOk, camera >>

\* SubmissionModel.updateById(id, updateData)
updateById(id, updateData) ==
  /\ \E valid \in isValid(id) :
       LET index == FindOne(submissions, id)
           updatedData == Merge(updateData, [ updatedAt |-> now ])
       IN  IF ~valid
             THEN /\ call' = [ op |-> "updateById", id |-> id, data |-> updateData,
                               result |-> null, queries |-> << >> ]
                  /\ submissions' = submissions
           ELSE IF index = 0
             THEN /\ call' = [ op |-> "updateById", id |-> id, data |-> updateData,
                               result |-> null, queries |-> << "findOneAndUpdate" >> ]
                  /\ submissions' = submissions
           ELSE /\ submissions' = [ submissions EXCEPT ![index] = Merge(@, updatedData) ]
                /\ call' = [ op |-> "updateById", id |-> id, data |-> updateData,
                             result |-> Merge(submissions[index], updatedData),
                             queries |-> << "findOneAndUpdate" >> ]
  /\ UNCHANGED << now, apiKey, rateLimitStore, reqs, started, submissionId, disk,
                  dels, detail, window, deletedOk, camera >>

\* SubmissionModel.deleteById(id)
deleteById(id) ==
  /\ \E valid \in isValid(id) :
       LET index == FindOne(submissions, id)
       IN  IF ~valid
             THEN /\ call' = [ op |-> "deleteById", id |-> id, data |-> << >>,
                               deleted |-> FALSE, queries |-> << >> ]
                  /\ submissions' = submissions
           ELSE /\ call' = [ op |-> "deleteById", id |-> id, data |-> << >>,
                             deleted |-> (index # 0), queries |-> << "deleteOne" >> ]
                /\ submissions' = IF index = 0 THEN submissions
                                  ELSE Splice(submissions, index)
  /\ UNCHANGED << now, apiKey, rateLimitStore, reqs, started, submissionId, disk,
                  dels, detail, window, deletedOk, camera >>

NextStore ==
  \/ \E submissionData \in SubmissionData : create(submissionData)
  \/ \E id \in StoreIds : findById(id)
  \/ \E id \in StoreIds, updateData \in UpdateData : updateById(id, updateData)
  \/ \E id \in StoreIds : deleteById(id)
  \/ Tick

SpecStore == Init /\ [][NextStore]_vars

\* C22: in every step of the store a document that stays in the collection
\* keeps its createdAt, whatever updateById is called with, and an updateById
\* that finds the document leaves its updatedAt at the time of the call.
C22_CreatedAtImmutable ==
  [][ /\ \A i \in DOMAIN submissions, j \in DOMAIN submissions' :
           submissions[i]._id = submissions'[j]._id =>
             submissions'[j].createdAt = submissions[i].createdAt
      /\ \A id \in StoreIds, updateData \in UpdateData :
           (updateById(id, updateData) /\ FindOne(submissions, id) # 0) =>
             submissions'[FindOne(submissions, id)].updatedAt = now
    ]_vars

\* C23: findById, updateById and deleteById called with an id that is not
\* of the store's format (24 hexadecimal characters) return null, null and
\* false, issue no operation on the collection and change no document.
C23_InvalidIdNoQuery ==
  [][ \A id \in StoreIds :
        ~(Len(id) = 24 /\ \A i \in DOMAIN id : IsHexChar(id[i])) =>
          /\ (call' # call /\ findById(id)) =>
               call'.result = null /\ call'.queries = << >>
          /\ \A updateData \in UpdateData :
               (call' # call /\ updateById(id, updateData)) =>
                 /\ call'.result = null /\ call'.queries = << >>
                 /\ submissions' = submissions
          /\ (call' # call /\ deleteById(id)) =>
               /\ ~call'.deleted /\ call'.queries = << >>
               /\ submissions' = submissions
    ]_vars

\* C24: the download handler sends the file only at the end of a request
\* whose record was in the list with a swappedImagePath when the request
\* arrived and whose file was on disk when fs.access looked; a request of
\* the handler that ends otherwise is answered 404 and sends nothing.
C24_DownloadOnlyIfPresent ==
  [][ (call' # call /\ call'.op = "downloadSwappedImage" /\ call'.handled) =>
        IF call.op = "downloadSwappedImage" /\ call.pc = "fs.access"
          THEN \* fs.access has answered
               /\ call'.pc = "done"
               /\ call'.path = call.path
               /\ IF call.path \in DOMAIN disk
                    THEN call'.status = 200 /\ call'.resp = "sendFile"
                    ELSE call'.status = 404 /\ call'.resp # "sendFile"
          ELSE \* the request has arrived
               LET id == ParamOf[call'.param].id
                   stored == { i \in DOMAIN submissions : submissions[i].id = id }
               IN  /\ call'.resp # "sendFile"
                   /\ IF stored = { } \/ \A i \in stored : submissions[i].swappedImagePath = NoPath
                        THEN call'.pc = "done" /\ call'.status = 404
                        ELSE /\ call'.pc = "fs.access" /\ call'.status = 0
                             /\ \E i \in stored : call'.path = submissions[i].swappedImagePath
    ]_vars

\* a download that found its record was answered 404 because a delete
\* unlinked the file while the handler waited for fs.access
C24_Witness ==
  /\ call.op = "downloadSwappedImage" /\ call.pc = "done" /\ call.handled
  /\ call.status = 404 /\ call.resp = "fileNotFound"
  /\ call.path \notin DOMAIN disk
  /\ ParamOf[call.param].id \in deletedOk

(***************************************************************************)
(* FaceSwapAPI.validateImage called on its own: each behaviour is one call *)
(* on a path whose file fs.stat and fs.readFile can or cannot read.        *)
(***************************************************************************)
\* getImageFormat(buffer)
getImageFormat(buffer) ==
  LET b == buffer.header
  IN  IF buffer.size < 4 THEN "unknown"
      ELSE IF b[1] = 255 /\ b[2] = 216 /\ b[3] = 255 THEN "jpeg"
      ELSE IF b[1] = 137 /\ b[2] = 80 /\ b[3] = 78 /\ b[4] = 71 THEN "png"
      ELSE IF b[1] = 71 /\ b[2] = 73 /\ b[3] = 70 THEN "gif"
      ELSE IF b[1] = 82 /\ b[2] = 73 /\ b[3] = 70 /\ b[4] = 70 THEN "webp"
      ELSE "unknown"

\* the leading bytes of the files: each of the four positions takes the
\* bytes the signatures have there and one that none has
HeaderBytes ==
  << { 255, 137, 71, 82, 0 }, { 216, 80, 73, 0 }, { 255, 78, 70, 0 }, { 71, 70, 224, 0 } >>

Headers(n) ==
  { h \in [ 1..n -> UNION Range(HeaderBytes) ] : \A i \in 1..n : h[i] \in HeaderBytes[i] }

\* the files: of fewer than four bytes, and of four leading bytes with a
\* size under, at and over the limit
ImageFiles ==
  UNION { { [ header |-> h, size |-> n ] : h \in Headers(n) } : n \in 0..3 }
  \cup { [ header |-> h, size |-> n ] :
           h \in Headers(4), n \in { 4, 10240, fileSize, fileSize + 1 } }

\* validateImage(imagePath): what it resolves to, given whether fs.stat and
\* fs.readFile resolve; thrown says whether the promise is rejected
validateImage(file, statOk, readOk) ==
  IF ~statOk \/ ~readOk
    THEN [ valid |-> FALSE, format |-> "", error |-> "Failed to validate image", thrown |-> FALSE ]
  ELSE IF file.size > fileSize
    THEN [ valid |-> FALSE, format |-> "", error |-> "Image file is too large (max 2MB allowed)",
           thrown |-> FALSE ]
  ELSE IF ~isValidImageBuffer(file)
    THEN [ valid |-> FALSE, format |-> "", error |-> "Invalid image format", thrown |-> FALSE ]
  ELSE [ valid |-> TRUE, format |-> getImageFormat(file), error |-> "", thrown |-> FALSE ]

imageValidated(file, statOk, readOk) ==
  /\ call = NoCall
  /\ call' = [ op |-> "validateImage", file |-> file, statOk |-> statOk, readOk |-> readOk,
               result |-> validateImage(file, statOk, readOk),
               isValidImageBuffer |-> isValidImageBuffer(file),
               getImageFormat |-> getImageFormat(file) ]
  /\ UNCHANGED << now, apiKey, rateLimitStore, reqs, started, submissions,
                  submissionId, disk, dels, detail, window, deletedOk, camera >>

NextImage ==
  \E file \in ImageFiles, statOk \in BOOLEAN, readOk \in BOOLEAN :
    imageValidated(file, statOk, readOk)

SpecImage == Init /\ [][NextImage]_vars

\* the leading bytes of the file are those of the JPEG, PNG, GIF or WEBP
\* signature, as far as the signature goes
MatchesSignature(file) ==
  \E sig \in { << 255, 216, 255 >>, << 137, 80, 78, 71 >>, << 71, 73, 70 >>, << 82, 73, 70, 70 >> } :
    /\ Len(file.header) >= Len(sig)
    /\ SubSeq(file.header, 1, Len(sig)) = sig

\* C25 as stated: validateImage never throws and answers valid exactly when
\* the file can be read, has at most 2 MiB and begins with one of the four
\* signatures; a valid answer names one of the four formats, and
\* isValidImageBuffer holds exactly when getImageFormat is not 'unknown'.
C25_ValidIffSignature ==
  call.op = "validateImage" =>
    /\ ~call.result.thrown
    /\ call.result.valid <=>
         /\ call.statOk /\ call.readOk
         /\ call.file.size <= 2097152
         /\ MatchesSignature(call.file)
    /\ call.result.valid => call.result.format \in { "jpeg", "png", "gif", "webp" }
    /\ call.isValidImageBuffer <=> call.getImageFormat # "unknown"

\* C25, amended: the same with the condition that the file has at least
\* four bytes: a file of three bytes that are a whole JPEG or GIF signature
\* is not valid.
C25_ValidIffSignatureAndFourBytes ==
  call.op = "validateImage" =>
    /\ ~call.result.thrown
    /\ call.result.valid <=>
         /\ call.statOk /\ call.readOk
         /\ call.file.size <= 2097152
         /\ call.file.size >= 4
         /\ MatchesSignature(call.file)
    /\ call.result.valid => call.result.format \in { "jpeg", "png", "gif", "webp" }
    /\ call.isValidImageBuffer <=> call.getImageFormat # "unknown"

\* a WEBP file of exactly 2 MiB was found valid
C25_Witness ==
  /\ call.op = "validateImage"
  /\ call.file = [ header |-> << 82, 73, 70, 70 >>, size |-> 2097152 ]
  /\ call.result.valid /\ call.result.format = "webp"

(***************************************************************************)
(* FaceSwapAPI.cleanup called on its own: each behaviour is one call on a  *)
(* list of paths, with the files of some submissions on disk.  fs.unlink   *)
(* rejects for a path that has no file, and for the paths of failing (a    *)
(* file that may not be removed), whose files stay.                        *)
(***************************************************************************)
MaxPaths == 3

\* the paths of the calls: the files of the stored submissions and a path
\* that has no file
CleanupPaths ==
  DOMAIN DiskOf(MaxStored) \cup { OriginalPath(0, MaxStored + 1, ".jpg") }

CleanupLists == UNION { [ 1..n -> CleanupPaths ] : n \in 0..MaxPaths }

\* a loop that ends at the first unlink that rejects
RECURSIVE CleanupFromUntilFailure(_, _, _, _)
CleanupFromUntilFailure(files, filePaths, k, failing) ==
  IF k > Len(filePaths)
    THEN [ files |-> files, attempts |-> << >>, thrown |-> FALSE ]
  ELSE IF filePaths[k] \in DOMAIN files /\ filePaths[k] \notin failing
    THEN LET rest == CleanupFromUntilFailure(Remove(files, filePaths[k]), filePaths, k + 1, failing)
         IN  [ rest EXCEPT !.attempts = << filePaths[k] >> \o @ ]
  ELSE [ files |-> files, attempts |-> << filePaths[k] >>, thrown |-> TRUE ]

\* for (const filePath of filePaths) { try { await fs.unlink(filePath) }
\* catch { log } }, from the k-th path on: the files left, the paths
\* fs.unlink was called with, and whether an error leaves the function
RECURSIVE CleanupFrom(_, _, _, _)
CleanupFrom(files, filePaths, k, failing) ==
  IF k > Len(filePaths)
    THEN [ files |-> files, attempts |-> << >>, thrown |-> FALSE ]
  ELSE LET unlinked == filePaths[k] \in DOMAIN files /\ filePaths[k] \notin failing
           rest == CleanupFrom(IF unlinked THEN Remove(files, filePaths[k]) ELSE files,
                               filePaths, k + 1, failing)
       IN  [ rest EXCEPT !.attempts = << filePaths[k] >> \o @ ]

\* faceSwapAPI.cleanup(filePaths)
cleanupFiles(filePaths, failing) ==
  /\ call = NoCall
  /\ LET run == CleanupFrom(disk, filePaths, 1, failing)
     IN  /\ disk' = run.files
         /\ call' = [ op |-> "cleanup", filePaths |-> filePaths, failing |-> failing,
                      before |-> DOMAIN disk,
                      attempts |-> run.attempts, thrown |-> run.thrown ]
  /\ UNCHANGED << now, apiKey, rateLimitStore, reqs, started, submissions,
                  submissionId, dels, detail, window, deletedOk, camera >>

NextCleanup ==
  \E filePaths \in CleanupLists :
    \E failing \in SUBSET Range(filePaths) : cleanupFiles(filePaths, failing)

SpecCleanup == InitId /\ [][NextCleanup]_vars

\* C26: a call of cleanup calls fs.unlink with every path of its list, in
\* the order of the list, whether or not an earlier unlink failed; it hands
\* no failure to its caller; afterwards the files that were on disk are
\* there but those of the list whose unlink did not fail.
C26_CleanupBestEffort ==
  call.op = "cleanup" =>
    /\ call.attempts = call.filePaths
    /\ ~call.thrown
    /\ DOMAIN disk = call.before \ (Range(call.filePaths) \ call.failing)

\* the first unlink failed on a file that then stayed, the second and third
\* removed theirs
C26_Witness ==
  /\ call.op = "cleanup"
  /\ Len(call.filePaths) = 3
  /\ call.filePaths[1] \in call.failing /\ call.filePaths[1] \in DOMAIN disk
  /\ call.filePaths[2] \in call.before \ DOMAIN disk
  /\ call.filePaths[3] \in call.before \ DOMAIN disk
  /\ call.filePaths[2] # call.filePaths[3]

(***************************************************************************)
(* POST /submit from arrival to response: three requests of one address    *)
(* that has used all but MaxSubmits of the requests of its window, so that *)
(* the last is refused by the rate limiter.  The event loop runs every     *)
(* callback that is ready, and the calls awaited return: weak fairness of  *)
(* the steps of each request.                                              *)
(***************************************************************************)
InitSubmit ==
  /\ now = 0
  /\ apiKey \in BOOLEAN
  /\ rateLimitStore = Put(<< >>, "10.0.0.1", [ count |-> maxRequests - MaxSubmits,
                                               resetTime |-> windowMs ])
  /\ reqs = [ r \in Slots |-> IdleRequest ]
  /\ started = 0
  /\ submissions = << >>
  /\ submissionId = 1
  /\ disk = << >>
  /\ dels = [ d \in DeleteSlots |-> IdleDelete ]
  /\ detail = NoDetail
  /\ window = Put(<< >>, "10.0.0.1", [ start |-> 0, n |-> maxRequests - MaxSubmits ])
  /\ deletedOk = { }
  /\ call = NoCall
  /\ camera = NoCamera

NextSubmit ==
  \/ \E r \in Slots, in \in Inputs :
       started < MaxSubmits + 1 /\ rateLimit(r, "10.0.0.1", in)
  \/ \E r \in Slots : SubmitStep(r)

SpecSubmit ==
  InitSubmit /\ [][NextSubmit]_vars /\ \A r \in Slots : WF_vars(SubmitStep(r))

\* C27: a POST /submit request that has been answered has one of the
\* statuses 429, 400, 500, 200; while a middleware or the handler still has
\* the request nothing has been sent, and the step that sends the response
\* ends the request (none responds and goes on); an answered request is not
\* answered again; a record is made exactly for the requests answered 200;
\* and every request that has arrived is answered in the end.
C27_OneTerminalOutcome ==
  /\ [][ \A r \in Slots :
           /\ reqs'[r].pc = "done" => reqs'[r].status \in { 429, 400, 500, 200 }
           /\ reqs'[r].pc \notin { "idle", "done" } =>
                reqs'[r].status = 0 /\ reqs'[r].resp = ""
           /\ reqs[r].pc = "done" => reqs'[r] \in { reqs[r], IdleRequest }
           /\ reqs'[r].pc = "done" =>
                (reqs'[r].status = 200 <=> reqs'[r].submissionId # 0)
           /\ (reqs[r].pc # "done" /\ reqs'[r].pc = "done" /\ reqs'[r].status # 200) =>
                submissions' = submissions
      ]_vars
  /\ \A r \in Slots : (reqs[r].pc \notin { "idle", "done" }) ~> (reqs[r].pc = "done")

\* the three outcomes side by side: a request answered 429 while another,
\* completed, has its record in the list, after one that failed or was
\* refused
C27_Witness ==
  /\ started = MaxSubmits + 1
  /\ \E r \in Slots : reqs[r].pc = "done" /\ reqs[r].status = 429
  /\ \E r \in Slots : reqs[r].pc = "done" /\ reqs[r].status = 200
  /\ Len(submissions) = 2

\* for each id of the model: the stored ids it is the 24-digit form of
IdsNamedBy ==
  [ param \in PathParams |->
      { n \in 1..(MaxStored + 1) : sanitizeInput(param) = Pad24(n) } ]

\* C28: a detail, download or delete request whose id is 24 hexadecimal
\* digits and is the id of no record of the list is answered 404 by its
\* handler, and the list and the files on disk stay as they are.
C28_UnknownIdNotFound ==
  [][ \A param \in PathParams :
        ( /\ WellFormedId[param]
          /\ \A i \in DOMAIN submissions : submissions[i].id \notin IdsNamedBy[param] ) =>
            /\ (detail' # detail /\ getSubmissionDetails(param)) =>
                 /\ detail'.status = 404
                 /\ submissions' = submissions /\ disk' = disk
            /\ (call' # call /\ downloadSwappedImage(param)) =>
                 /\ call'.pc = "done" /\ call'.status = 404
                 /\ submissions' = submissions /\ disk' = disk
            /\ (dels'[1] # dels[1] /\ deleteSubmission(1, param)) =>
                 /\ dels'[1].pc = "done" /\ dels'[1].status = 404
                 /\ submissions' = submissions /\ disk' = disk
    ]_vars

\* a sorts before b in the order (sortBy, sortOrder) of the options, the
\* strings compared as renderSubmissions compares them
OptionsBefore(a, b, options) ==
  LET field == IF options.sortBy \in { << "n","a","m","e" >>, << "e","m","a","i","l" >> }
                 THEN options.sortBy ELSE << "a","s","c" >>
      up(x, y) == IF field = << "a","s","c" >> THEN x.createdAt < y.createdAt
                  ELSE SortsBefore(x, y, field)
  IN  IF options.sortOrder = 1 THEN up(a, b) ELSE up(b, a)

\* C29: the records a list request gets are the ones its queryOptions
\* describe: min(limit, N - skip) of them (none if skip >= N), in the order
\* (sortBy, sortOrder), the first of them at offset skip of that order; and
\* totalPages is not negative.
C29_ListFollowsQueryOptions ==
  call.op = "renderSubmissions" =>
    LET options == call.queryOptions
        page == call.submissions
        n == Len(submissions)
    IN  /\ Len(page) = Max(0, Min(options.skip + options.limit, n) - options.skip)
        /\ \A i, j \in DOMAIN page : i < j => ~OptionsBefore(page[j], page[i], options)
        /\ page # << >> =>
             /\ Cardinality({ k \in 1..n : OptionsBefore(submissions[k], page[1], options) })
                  <= options.skip
             /\ Cardinality({ k \in 1..n : ~OptionsBefore(page[1], submissions[k], options) })
                  > options.skip
        /\ call.pagination.totalPages >= 0

(***************************************************************************)
(* CameraManager (the script of the form page): the events of its buttons  *)
(* and of the camera select, and the answers of getUserMedia and of        *)
(* canvas.toBlob, in any order.  A stream is live from the moment          *)
(* getUserMedia gives it until its tracks are stopped.                     *)
(***************************************************************************)
\* calls of startCamera in a behaviour
MaxStarts == 3
\* this.devices.length
MaxDevices == 3
\* callbacks of toBlob that wait at one time
MaxBlobs == 1

\* stopCamera(): the tracks of this.stream are stopped and this.stream is null
Stopped(cam) ==
  [ cam EXCEPT !.live = @ \ { cam.stream }, !.stream = 0 ]

\* startCamera up to its await: stopCamera(), then getUserMedia is asked
Started(cam) ==
  [ Stopped(cam) EXCEPT !.awaiting = @ + 1 ]

\* startCamera calls made so far: the streams given, refused or awaited
Starts(cam) == cam.streams + cam.awaiting

CameraUnchanged ==
  UNCHANGED << now, apiKey, rateLimitStore, reqs, started, submissions, submissionId,
               disk, dels, detail, window, deletedOk, call >>

\* click on #startCamera
startCamera ==
  /\ Starts(camera) < MaxStarts
  /\ camera' = Started(camera)
  /\ CameraUnchanged

\* getUserMedia answers one of the calls with a new stream:
\* this.stream = await navigator.mediaDevices.getUserMedia(constraints)
getUserMediaResolves ==
  /\ camera.awaiting > 0
  /\ camera' = [ camera EXCEPT !.awaiting = @ - 1,
                               !.streams = @ + 1,
                               !.stream = camera.streams + 1,
                               !.live = @ \cup { camera.streams + 1 } ]
  /\ CameraUnchanged

\* getUserMedia refuses (permission, device): the catch of startCamera
getUserMediaRejects ==
  /\ camera.awaiting > 0
  /\ camera' = [ camera EXCEPT !.awaiting = @ - 1, !.streams = @ + 1 ]
  /\ CameraUnchanged

\* stopCamera(): the camera section is hidden, or the page goes away
stopCamera ==
  /\ camera' = Stopped(camera)
  /\ CameraUnchanged

\* click on #switchCamera
switchCamera ==
  /\ MaxDevices > 1
  /\ LET next == [ camera EXCEPT !.currentDeviceId = (camera.currentDeviceId % MaxDevices) + 1 ]
     IN  IF camera.stream # 0
           THEN Starts(camera) < MaxStarts /\ camera' = Started(next)
           ELSE camera' = next
  /\ CameraUnchanged

\* change of #cameraSelect to the device
cameraSelectChange(deviceId) ==
  /\ deviceId # camera.currentDeviceId
  /\ LET next == [ camera EXCEPT !.currentDeviceId = deviceId ]
     IN  IF camera.stream # 0
           THEN Starts(camera) < MaxStarts /\ camera' = Started(next)
           ELSE camera' = next
  /\ CameraUnchanged

\* click on #captureBtn: without a stream an alert, otherwise the frame is
\* drawn and toBlob is asked for the file
capturePhoto ==
  /\ camera.stream # 0
  /\ camera.blobs < MaxBlobs
  /\ camera' = [ camera EXCEPT !.blobs = @ + 1 ]
  /\ CameraUnchanged

\* the callback of toBlob: handleCapturedImage stops the camera
handleCapturedImage ==
  /\ camera.blobs > 0
  /\ camera' = [ Stopped(camera) EXCEPT !.blobs = @ - 1, !.captured = TRUE ]
  /\ CameraUnchanged

\* click on #retakeBtn: the preview is cleared and the camera started again
retakePhoto ==
  /\ Starts(camera) < MaxStarts
  /\ camera' = [ Started(camera) EXCEPT !.captured = FALSE ]
  /\ CameraUnchanged

NextCamera ==
  \/ startCamera
  \/ getUserMediaResolves
  \/ getUserMediaRejects
  \/ stopCamera
  \/ switchCamera
  \/ \E deviceId \in 1..MaxDevices : cameraSelectChange(deviceId)
  \/ capturePhoto
  \/ handleCapturedImage
  \/ retakePhoto

InitCamera == Init /\ apiKey

SpecCamera == InitCamera /\ [][NextCamera]_vars

\* C30: every stream that has been acquired and whose tracks have not been
\* stopped is the one this.stream refers to; so at most one stream is live.
C30_NoStreamLeaked ==
  /\ camera.live \subseteq { camera.stream }
  /\ Cardinality(camera.live) <= 1

====
